---- MODULE Spec2Model ----
(***************************************************************************)
(* Model of the testnet peer crawler (src/custom_crawler/crawler.py with   *)
(* its Redis store src/custom_crawler/database.py), of the socket crawler  *)
(* src/services/bitcoin_crawler.py, of the queue loops of                  *)
(* src/bitcoin_peer_crawler.py and src/crawl_bitnodes.py, and of           *)
(* src/fetch_bitnodes.py, and of the SQLite store src/database.py.         *)
(*                                                                         *)
(*   Spec          BitcoinTestnetCrawler.crawl: the batch loop, the store  *)
(*                 and the workers of a batch, each worker returning any   *)
(*                 result handshake_and_get_peers can produce.             *)
(*   SpecScenario  the same loop against peers that all complete the       *)
(*                 handshake and each return two addresses never seen.     *)
(*   SpecHS        one run of handshake_and_get_peers, frame by frame.     *)
(*   SpecSvc       one run of BitcoinCrawler.connect_and_crawl, message by *)
(*                 message.                                                *)
(*   SpecVarint    encode_varint and decode_varint on numbers and buffers. *)
(*   SpecAddr      parse_addr_payload on addr payloads, record by record.  *)
(*   SpecNet       BitcoinCrawler.crawl_network with its stop event and    *)
(*                 the signal handler of main.                             *)
(*   SpecDisc      crawl() processing one batch, from every state the      *)
(*                 store and visited can be in when the batch returns.     *)
(*   SpecSvcAddr   BitcoinCrawler.parse_addr_message, record by record.    *)
(*   SpecMsg       BitcoinCrawler.create_message and parse_message on      *)
(*                 messages and damaged buffers.                           *)
(*   SpecSeq       the queue loops of crawl_network, of                    *)
(*                 BitcoinPeerCrawler.crawl_from_seed and of               *)
(*                 SimpleCrawler.crawl.                                    *)
(*   SpecFetch     fetch_bitnodes: its attempts and its sleeps.            *)
(*   SpecResume    crawl() started on a store an earlier run has used.     *)
(*   SpecStore     one client calling save_peer, save_peers_batch and      *)
(*                 mark_peer_contacted on an empty store.                  *)
(*   SpecSql       PeersDatabase (src/database.py): save_snapshot,         *)
(*                 get_latest_snapshot and delete_old_snapshots.           *)
(***************************************************************************)
EXTENDS Integers, Sequences, FiniteSets, TLC

\* ---------------------------------------------------------------- bounds
NumIPs == 2          \* hosts that seeds and peer answers draw from
MaxSeeds == 2        \* length of the seed list
MaxRet == 1          \* length of one worker's returned address list
MaxTarget == 3       \* largest config.target_peers
MaxConc == 2         \* largest config.concurrency
MaxIter == 2         \* largest config.max_iterations
ScenMaxTarget == 6   \* largest target of the all-succeed scenario
ScenMaxIter == 2     \* largest max_iterations of the all-succeed scenario

\* ------------------------------------------------------------- addresses
ScenIPs == 12
IPs == 1..NumIPs
AllIPs == 1..ScenIPs
DefaultPort == 18333
AltPort == DefaultPort + 1
Ports == {DefaultPort, AltPort}
\* the addresses peers and seeds report: every host on the default port, and
\* host 1 also on a second port
Addr == (IPs \X {DefaultPort}) \cup ({1} \X {AltPort})
AllAddr == (AllIPs \X {DefaultPort}) \cup ({1} \X {AltPort})

NoPeer == [port |-> 0, contacted |-> "none", success |-> "none"]
NoPort == 0
Unbound == -1
Pending == [kind |-> "pending", peers |-> <<>>]

SeqsUpTo(S, n) == UNION {[1..k -> S] : k \in 0..n}

InjSeqs(S, k) == {s \in [1..k -> S] : \A i, j \in 1..k : i # j => s[i] # s[j]}

Min(a, b) == IF a < b THEN a ELSE b

VARIABLES
  config,            \* CrawlConfig: target_peers, concurrency, max_iterations
  db,                \* the Redis store: peer hashes and the four sets
  visited,           \* BitcoinTestnetCrawler.visited
  stats,             \* CrawlStats counters and peers_per_iteration
  pc,                \* position of crawl(): init, loop, gather, done, raised
  iteration,         \* the loop variable of crawl(), Unbound before the loop
  peers_to_process,  \* addresses dispatched in the current batch
  results,           \* gather's result slots, Pending while a worker runs
  final_stats,       \* summary returned by _finalize_crawl
  dispatched,        \* history: how often each address was handed to a worker
  totalAtDispatch,   \* history: store total read at each dispatching boundary
  frontierAtDispatch,\* history: size of the uncontacted set at each dispatch
  lastBatch,         \* history: outcomes and counters of the last completed batch
  hs,                \* handshake_and_get_peers: one connection
  svc,               \* BitcoinCrawler.connect_and_crawl: one connection
  wire,              \* the wire codec: one call of a codec function
  net,               \* a sequential crawler (crawl_network and its kin): the queue loop
  fetch,             \* fetch_bitnodes: one call
  sql                \* PeersDatabase: the SQLite file and the client's last call

vars == <<config, db, visited, stats, pc, iteration, peers_to_process, results,
          final_stats, dispatched, totalAtDispatch, frontierAtDispatch,
          lastBatch, hs, svc, wire, net, fetch, sql>>

crawlVars == <<config, db, visited, stats, pc, iteration, peers_to_process,
               results, final_stats, dispatched, totalAtDispatch,
               frontierAtDispatch, lastBatch>>

\* ------------------------------------------------------------- the store
EmptyDB == [peer |-> [ip \in AllIPs |-> NoPeer],
            uncontacted |-> {}, contacted |-> {}, successful |-> {},
            all |-> {}]

exists(d, ip) == d.peer[ip] # NoPeer

\* index of the last entry of peers for ip among the entries queued on the pipe
LastNew(d, peers, ip) ==
  CHOOSE i \in 1..Len(peers) :
     /\ peers[i][1] = ip
     /\ \A j \in 1..Len(peers) : peers[j][1] = ip => j <= i

\* save_peers_batch with a fault: every entry is written, known or not
save_peers_batch_always(d, peers) ==
  LET newIPs == {peers[i][1] : i \in 1..Len(peers)}
  IN [d EXCEPT
        !.peer = [ip \in AllIPs |->
                    IF ip \in newIPs
                    THEN [port |-> peers[LastNew(d, peers, ip)][2],
                          contacted |-> "0", success |-> "0"]
                    ELSE d.peer[ip]],
        !.uncontacted = d.uncontacted \cup newIPs,
        !.all = d.all \cup newIPs]

\* BitcoinNodesDB.save_peers_batch: the existence test runs against the store
\* as it is before the pipeline executes; the queued writes then run in order.
save_peers_batch(d, peers) ==
  LET newIPs == {peers[i][1] : i \in {j \in 1..Len(peers) : ~exists(d, peers[j][1])}}
  IN [d EXCEPT
        !.peer = [ip \in AllIPs |->
                    IF ip \in newIPs
                    THEN [port |-> peers[LastNew(d, peers, ip)][2],
                          contacted |-> "0", success |-> "0"]
                    ELSE d.peer[ip]],
        !.uncontacted = d.uncontacted \cup newIPs,
        !.all = d.all \cup newIPs]

\* mark_peer_contacted with a fault: the address is left in the uncontacted set
mark_peer_contacted_keep(d, ip, port, success) ==
  [d EXCEPT
     !.peer[ip] = [port |-> d.peer[ip].port,
                   contacted |-> "1",
                   success |-> IF success THEN "1" ELSE "0"],
     !.contacted = d.contacted \cup {ip},
     !.successful = IF success THEN d.successful \cup {ip} ELSE d.successful]

\* BitcoinNodesDB.mark_peer_contacted
mark_peer_contacted(d, ip, port, success) ==
  [d EXCEPT
     !.peer[ip] = [port |-> d.peer[ip].port,
                   contacted |-> "1",
                   success |-> IF success THEN "1" ELSE "0"],
     !.uncontacted = d.uncontacted \ {ip},
     !.contacted = d.contacted \cup {ip},
     !.successful = IF success THEN d.successful \cup {ip} ELSE d.successful]

\* redis SRANDMEMBER key count, count >= 0: distinct members, at most count
srandmember(S, count) == InjSeqs(S, Min(count, Cardinality(S)))

\* get_uncontacted_peers with a fault: the limit is not passed on
get_uncontacted_peers_nolimit(d, limit) ==
  LET ipLists == srandmember(d.uncontacted, Cardinality(d.uncontacted))
      withPort(l) == SelectSeq(l, LAMBDA ip : d.peer[ip].port # NoPort)
  IN {[i \in 1..Len(withPort(l)) |-> <<withPort(l)[i], d.peer[withPort(l)[i]].port>>]
        : l \in ipLists}

\* BitcoinNodesDB.get_uncontacted_peers: the possible return values
get_uncontacted_peers(d, limit) ==
  LET ipLists == srandmember(d.uncontacted, limit)
      withPort(l) == SelectSeq(l, LAMBDA ip : d.peer[ip].port # NoPort)
  IN {[i \in 1..Len(withPort(l)) |-> <<withPort(l)[i], d.peer[withPort(l)[i]].port>>]
        : l \in ipLists}

\* BitcoinNodesDB.get_peer_counts
get_peer_counts(d) == [total |-> Cardinality(d.all),
                        contacted |-> Cardinality(d.contacted),
                        successful |-> Cardinality(d.successful)]

\* ------------------------------------------------- configuration and stats
Configs == [target_peers : 0..MaxTarget,
            concurrency : 1..MaxConc,
            max_iterations : 0..MaxIter]

\* CrawlStats.__init__
NewStats == [total_discovered |-> 0, total_contacted |-> 0,
             successful_handshakes |-> 0, failed_connections |-> 0,
             peers_per_iteration |-> <<>>]

NoSummary == [total_discovered |-> -1, total_contacted |-> -1,
              successful_handshakes |-> -1, failed_connections |-> -1,
              iterations_completed |-> -1]

NoBatch == [n |-> 0, ok |-> 0, fail |-> 0, exc |-> 0,
            succBefore |-> 0, succAfter |-> 0,
            failedBefore |-> 0, failedAfter |-> 0]

\* handshake_and_get_peers before its first statement
HsStart == [pc |-> "connect", i |-> 0, j |-> 0,
            received_version |-> FALSE, received_verack |-> FALSE,
            peers |-> <<>>, result |-> "none", error |-> "none",
            open |-> FALSE, ready |-> FALSE, getaddr |-> 0,
            frames |-> {}, first |-> "none", events |-> {},
            rejectedPayloadRead |-> FALSE, addrAccepted |-> 0,
            mismatchUsed |-> FALSE]

\* BitcoinCrawler.connect_and_crawl before its first statement
SvcStart == [pc |-> "start", version_received |-> FALSE,
             verack_received |-> FALSE, addr_received |-> FALSE,
             peers |-> <<>>, result |-> "none", open |-> FALSE,
             getaddr |-> 0, log |-> <<>>, end |-> "none"]

HsIdle == [HsStart EXCEPT !.pc = "idle"]
SvcIdle == [SvcStart EXCEPT !.pc = "idle"]
\* no codec function is running
WireIdle == [pc |-> "idle"]
\* crawl_network is not running
NetIdle == [pc |-> "idle"]
\* fetch_bitnodes is not running
FetchIdle == [pc |-> "idle"]
\* no PeersDatabase is open
SqlIdle == [pc |-> "idle"]

\* what a worker can hand back to gather: a ConnectionResult with success
\* (and the decoded addresses), a ConnectionResult without success (never
\* with addresses), or an exception object (return_exceptions=True)
WorkerResults ==
  {[kind |-> "fail", peers |-> <<>>], [kind |-> "exc", peers |-> <<>>]}
    \cup {[kind |-> "ok", peers |-> p] : p \in SeqsUpTo(Addr, MaxRet)}

\* BitcoinTestnetCrawler._finalize_crawl
finalize_crawl(d, st, iterations) ==
  [total_discovered |-> get_peer_counts(d).total,
   total_contacted |-> get_peer_counts(d).contacted,
   successful_handshakes |-> get_peer_counts(d).successful,
   failed_connections |-> st.failed_connections,
   iterations_completed |-> iterations]

\* crawl() line 676: return self._finalize_crawl(iteration + 1); the name
\* iteration is bound only if the for loop ran its header at least once
ReturnSummary(it) ==
  IF it = Unbound
  THEN /\ pc' = "raised"
       /\ final_stats' = final_stats
  ELSE /\ pc' = "done"
       /\ final_stats' = finalize_crawl(db, stats, it + 1)

\* range(self.config.max_iterations): the value the loop header binds next
NextIteration == IF iteration = Unbound THEN 0 ELSE iteration + 1

\* TargetReached with a fault: the comparison is strict
TargetReachedStrict(total, target) == total > target

\* crawl() line 594: counts['total'] >= self.config.target_peers
TargetReached(total, target) == total >= target

\* HasNextIteration with a fault: the loop is not bounded by max_iterations
HasNextIterationUnbounded(next, max_iterations) == next < max_iterations + 2

\* crawl() line 583: the for loop has another value to bind
HasNextIteration(next, max_iterations) == next < max_iterations

\* crawl() line 601: if not queue
QueueEmpty(queue) == Len(queue) = 0

\* crawl() lines 610-614: the queue entries that are handed to a worker
NotVisited(queue, vis) == SelectSeq(queue, LAMBDA p : p[1] \notin vis)

\* BatchOf with a fault: the queue is drawn from every known peer and handed to
\* the workers without the visited test
BatchOfAllPeers(d, vis, limit) ==
  {[queue |-> q, tasks |-> q] :
     q \in InjSeqs({<<ip, d.peer[ip].port>> : ip \in d.all},
                   Min(limit, Cardinality(d.all)))}

\* crawl() lines 599-614: the possible queues of one batch boundary, each
\* with the tasks created from it
BatchOf(d, vis, limit) ==
  {[queue |-> q, tasks |-> NotVisited(q, vis)] :
     q \in get_uncontacted_peers(d, limit)}

CountKind(res, k) == Cardinality({i \in 1..Len(res) : res[i].kind = k})

\* SuccessDelta with a fault: a handshake that returned no addresses is not
\* counted
SuccessDeltaNonEmpty(res) ==
  Cardinality({i \in 1..Len(res) : res[i].kind = "ok" /\ res[i].peers # <<>>})

\* crawl() lines 629-632: results counted into stats.successful_handshakes
SuccessDelta(res) == CountKind(res, "ok")

\* FailedDelta with a fault: an exception object is not counted
FailedDeltaNoExc(res) == CountKind(res, "fail")

\* crawl() lines 649-655: results counted into stats.failed_connections
FailedDelta(res) == CountKind(res, "fail") + CountKind(res, "exc")

\* the marking loop with a fault: the exceptions are dropped from the results
\* before they are paired with the addresses
MarkAllCompacted(d, ptp, res, i) ==
  LET kept == SelectSeq(res, LAMBDA r : r.kind # "exc")
      idx == {k \in i..Len(ptp) : k <= Len(kept)}
      hosts == {ptp[k][1] : k \in idx}
      okHosts == {ptp[k][1] : k \in {m \in idx : kept[m].kind = "ok"}}
  IN [d EXCEPT
        !.peer = [ip \in AllIPs |->
                    IF ip \in hosts
                    THEN [port |-> d.peer[ip].port,
                          contacted |-> "1",
                          success |-> IF ip \in okHosts THEN "1" ELSE "0"]
                    ELSE d.peer[ip]],
        !.uncontacted = d.uncontacted \ hosts,
        !.contacted = d.contacted \cup hosts,
        !.successful = d.successful \cup okHosts]

\* crawl() lines 623-657, store side: every dispatched address is marked
RECURSIVE MarkAll(_, _, _, _)
MarkAll(d, ptp, res, i) ==
  IF i > Len(res) \/ i > Len(ptp)
  THEN d
  ELSE MarkAll(mark_peer_contacted(d, ptp[i][1], ptp[i][2], res[i].kind = "ok"),
               ptp, res, i + 1)

\* crawl() lines 645-648: the addresses collected for the batch insert
RECURSIVE NewPeersBatch(_, _, _)
NewPeersBatch(res, vis, i) ==
  IF i > Len(res)
  THEN <<>>
  ELSE (IF res[i].kind = "ok"
        THEN SelectSeq(res[i].peers, LAMBDA p : p[1] \notin vis)
        ELSE <<>>) \o NewPeersBatch(res, vis, i + 1)

\* --------------------------------------------------------------- crawl()
Init ==
  /\ config \in Configs
  /\ db = EmptyDB
  /\ visited = {}
  /\ stats = NewStats
  /\ pc = "init"
  /\ iteration = Unbound
  /\ peers_to_process = <<>>
  /\ results = <<>>
  /\ final_stats = NoSummary
  /\ dispatched = [a \in AllAddr |-> 0]
  /\ totalAtDispatch = <<>>
  /\ frontierAtDispatch = <<>>
  /\ lastBatch = NoBatch
  /\ hs = HsIdle
  /\ svc = SvcIdle
  /\ wire = WireIdle
  /\ net = NetIdle
  /\ fetch = FetchIdle /\ sql = SqlIdle

\* crawl() lines 570-580: the seed list is saved
StartCrawlWith(seed_peers) ==
  /\ pc = "init"
  /\ db' = save_peers_batch(db, seed_peers)
  /\ pc' = "loop"
  /\ UNCHANGED <<config, visited, stats, iteration, peers_to_process, results,
                 final_stats, dispatched, totalAtDispatch, frontierAtDispatch,
                 lastBatch, hs, svc, wire, net, fetch, sql>>

StartCrawl == \E seed_peers \in SeqsUpTo(Addr, MaxSeeds) : StartCrawlWith(seed_peers)

\* crawl() line 583 then 676: range(max_iterations) is exhausted
LoopExhausted ==
  /\ pc = "loop"
  /\ ~HasNextIteration(NextIteration, config.max_iterations)
  /\ ReturnSummary(iteration)
  /\ UNCHANGED <<config, db, visited, stats, iteration, peers_to_process,
                 results, dispatched, totalAtDispatch, frontierAtDispatch,
                 lastBatch, hs, svc, wire, net, fetch, sql>>

\* crawl() line 592: counts['total'] / self.config.target_peers raises
\* ZeroDivisionError, which nothing in crawl() catches
ProgressDivisionByZero ==
  /\ pc = "loop"
  /\ HasNextIteration(NextIteration, config.max_iterations)
  /\ config.target_peers = 0
  /\ iteration' = NextIteration
  /\ pc' = "raised"
  /\ UNCHANGED <<config, db, visited, stats, peers_to_process, results,
                 final_stats, dispatched, totalAtDispatch, frontierAtDispatch,
                 lastBatch, hs, svc, wire, net, fetch, sql>>

\* crawl() lines 594-596 then 676
StopAtTarget ==
  /\ pc = "loop"
  /\ HasNextIteration(NextIteration, config.max_iterations)
  /\ config.target_peers # 0
  /\ TargetReached(get_peer_counts(db).total, config.target_peers)
  /\ iteration' = NextIteration
  /\ ReturnSummary(NextIteration)
  /\ UNCHANGED <<config, db, visited, stats, peers_to_process, results,
                 dispatched, totalAtDispatch, frontierAtDispatch, lastBatch,
                 hs, svc, wire, net, fetch, sql>>

\* crawl() lines 599-603 then 676
StopAtEmptyQueue ==
  /\ pc = "loop"
  /\ HasNextIteration(NextIteration, config.max_iterations)
  /\ config.target_peers # 0
  /\ ~TargetReached(get_peer_counts(db).total, config.target_peers)
  /\ \E b \in BatchOf(db, visited, config.concurrency) : QueueEmpty(b.queue)
  /\ iteration' = NextIteration
  /\ ReturnSummary(NextIteration)
  /\ UNCHANGED <<config, db, visited, stats, peers_to_process, results,
                 dispatched, totalAtDispatch, frontierAtDispatch, lastBatch,
                 hs, svc, wire, net, fetch, sql>>

\* crawl() lines 599-616: a queue is drawn, every entry not yet visited is
\* added to visited and gets a worker; gather starts the workers
Dispatch ==
  /\ pc = "loop"
  /\ HasNextIteration(NextIteration, config.max_iterations)
  /\ config.target_peers # 0
  /\ ~TargetReached(get_peer_counts(db).total, config.target_peers)
  /\ \E b \in BatchOf(db, visited, config.concurrency) :
       /\ ~QueueEmpty(b.queue)
       /\ peers_to_process' = b.tasks
       /\ results' = [i \in 1..Len(b.tasks) |-> Pending]
       /\ visited' = visited \cup {b.tasks[i][1] : i \in 1..Len(b.tasks)}
       /\ dispatched' =
            [a \in AllAddr |->
               dispatched[a] + Cardinality({i \in 1..Len(b.tasks) : b.tasks[i] = a})]
  /\ iteration' = NextIteration
  /\ totalAtDispatch' = Append(totalAtDispatch, get_peer_counts(db).total)
  /\ frontierAtDispatch' = Append(frontierAtDispatch, Cardinality(db.uncontacted))
  /\ pc' = "gather"
  /\ UNCHANGED <<config, db, stats, final_stats, lastBatch, hs, svc, wire, net, fetch, sql>>

\* WorkerReturnsWith with a fault: the worker itself marks its address as
\* contacted in the store
WorkerReturnsMarking(i, r) ==
  /\ pc = "gather"
  /\ i \in 1..Len(results)
  /\ results[i] = Pending
  /\ results' = [results EXCEPT ![i] = r]
  /\ db' = mark_peer_contacted(db, peers_to_process[i][1], peers_to_process[i][2],
                               r.kind = "ok")
  /\ UNCHANGED <<config, visited, stats, pc, iteration, peers_to_process,
                 final_stats, dispatched, totalAtDispatch, frontierAtDispatch,
                 lastBatch, hs, svc, wire, net, fetch, sql>>

\* one worker of the batch returns its result to gather
WorkerReturnsWith(i, r) ==
  /\ pc = "gather"
  /\ i \in 1..Len(results)
  /\ results[i] = Pending
  /\ results' = [results EXCEPT ![i] = r]
  /\ UNCHANGED <<config, db, visited, stats, pc, iteration, peers_to_process,
                 final_stats, dispatched, totalAtDispatch, frontierAtDispatch,
                 lastBatch, hs, svc, wire, net, fetch, sql>>

WorkerReturns ==
  \E i \in 1..Len(results), r \in WorkerResults : WorkerReturnsWith(i, r)

\* crawl() lines 618-673: gather returned; the results are counted, every
\* dispatched address is marked, the new addresses are saved
ProcessResults ==
  /\ pc = "gather"
  /\ \A i \in 1..Len(results) : results[i] # Pending
  /\ LET marked == MarkAll(db, peers_to_process, results, 1)
         new_peers_batch == NewPeersBatch(results, visited, 1)
         new_peers_count == Len(new_peers_batch)
     IN /\ db' = IF new_peers_batch # <<>>
                 THEN save_peers_batch(marked, new_peers_batch)
                 ELSE marked
        /\ stats' =
             [total_discovered |-> stats.total_discovered + new_peers_count,
              total_contacted |-> stats.total_contacted + Len(results),
              successful_handshakes |->
                 stats.successful_handshakes + SuccessDelta(results),
              failed_connections |->
                 stats.failed_connections + FailedDelta(results),
              peers_per_iteration |->
                 Append(stats.peers_per_iteration, new_peers_count)]
  /\ lastBatch' = [n |-> Len(results),
                   ok |-> CountKind(results, "ok"),
                   fail |-> CountKind(results, "fail"),
                   exc |-> CountKind(results, "exc"),
                   succBefore |-> stats.successful_handshakes,
                   succAfter |-> stats'.successful_handshakes,
                   failedBefore |-> stats.failed_connections,
                   failedAfter |-> stats'.failed_connections]
  /\ peers_to_process' = <<>>
  /\ results' = <<>>
  /\ pc' = "loop"
  /\ UNCHANGED <<config, visited, iteration, final_stats, dispatched,
                 totalAtDispatch, frontierAtDispatch, hs, svc, wire, net, fetch, sql>>

Next ==
  \/ StartCrawl
  \/ LoopExhausted
  \/ ProgressDivisionByZero
  \/ StopAtTarget
  \/ StopAtEmptyQueue
  \/ Dispatch
  \/ WorkerReturns
  \/ ProcessResults

Spec == Init /\ [][Next]_vars

\* --------------------------------------------- the all-succeed scenario
ScenConfigs == [target_peers : 0..ScenMaxTarget,
                concurrency : {1, 2, 3, 10},
                max_iterations : 0..ScenMaxIter]

ScenSeeds == <<<<1, DefaultPort>>, <<2, DefaultPort>>, <<3, DefaultPort>>>>

ScenInit ==
  /\ config \in ScenConfigs
  /\ db = EmptyDB
  /\ visited = {}
  /\ stats = NewStats
  /\ pc = "init"
  /\ iteration = Unbound
  /\ peers_to_process = <<>>
  /\ results = <<>>
  /\ final_stats = NoSummary
  /\ dispatched = [a \in AllAddr |-> 0]
  /\ totalAtDispatch = <<>>
  /\ frontierAtDispatch = <<>>
  /\ lastBatch = NoBatch
  /\ hs = HsIdle
  /\ svc = SvcIdle
  /\ wire = WireIdle
  /\ net = NetIdle
  /\ fetch = FetchIdle /\ sql = SqlIdle

\* the seed source hands over the first n of the three seeds
ScenStartCrawl == \E n \in 0..Len(ScenSeeds) : StartCrawlWith(SubSeq(ScenSeeds, 1, n))

LeastOf(S) == CHOOSE x \in S : \A y \in S : x <= y

\* a worker completes the handshake and returns two addresses nobody has
\* reported before
ScenWorkerReturns ==
  \E i \in 1..Len(results) :
    /\ pc = "gather"
    /\ results[i] = Pending
    /\ LET used == db.all \cup UNION {{results[k].peers[j][1] : j \in 1..Len(results[k].peers)} :
                                        k \in 1..Len(results)}
           fresh == AllIPs \ used
       IN /\ Cardinality(fresh) >= 2
          /\ WorkerReturnsWith(i,
               [kind |-> "ok",
                peers |-> <<<<LeastOf(fresh), DefaultPort>>,
                            <<LeastOf(fresh \ {LeastOf(fresh)}), DefaultPort>>>>])

ScenNext ==
  \/ ScenStartCrawl
  \/ LoopExhausted
  \/ ProgressDivisionByZero
  \/ StopAtTarget
  \/ StopAtEmptyQueue
  \/ Dispatch
  \/ ScenWorkerReturns
  \/ ProcessResults

SpecScenario == ScenInit /\ [][ScenNext]_vars

\* ------------------------------------------- handshake_and_get_peers
HandshakeBudget == 10
AddrBudget == 5
SanityCeiling == 5000000

Magics == {"testnet", "other"}
Commands == {"version", "verack", "addr", "ping"}
PayloadLens == {0, 1, SanityCeiling, SanityCeiling + 1}
\* what one read of the stream can do: deliver the bytes, run into the read
\* timeout, or raise (IncompleteReadError, ConnectionResetError)
ReadOutcomes == {"ok", "timeout", "error"}
\* what a write/drain or a close/wait_closed can do
IoOutcomes == {"ok", "raise"}
\* what `await writer.drain()` and `await writer.wait_closed()` can do: no
\* wait_for surrounds them, so besides completing or raising they can stay
\* pending for ever
AwaitOutcomes == IoOutcomes \cup {"pending"}
\* the coroutine is suspended at an await that never completes
Blocked(h) == [h EXCEPT !.pc = "blocked"]
ConnectOutcomes == {"ok", "timeout", "refused", "error"}
\* header[20:24] against sha256d(payload)[:4]: equal or not
Checksums == {"match", "differ"}
\* the address lists an addr payload can decode to
HsAddrLists == {<<>>, <<<<1, DefaultPort>>>>, <<<<2, DefaultPort>>, <<1, AltPort>>>>}

\* the frames the peer may put on the wire, with the fate of the two reads
Frames == [header : ReadOutcomes, magic : Magics, command : Commands,
           len : PayloadLens, checksum : Checksums, payload : ReadOutcomes,
           addrs : HsAddrLists]

\* the crawl loop does not run in the single-connection specifications
CrawlIdle ==
  /\ config = [target_peers |-> 1, concurrency |-> 1, max_iterations |-> 1]
  /\ db = EmptyDB
  /\ visited = {}
  /\ stats = NewStats
  /\ pc = "idle"
  /\ iteration = Unbound
  /\ peers_to_process = <<>>
  /\ results = <<>>
  /\ final_stats = NoSummary
  /\ dispatched = [a \in AllAddr |-> 0]
  /\ totalAtDispatch = <<>>
  /\ frontierAtDispatch = <<>>
  /\ lastBatch = NoBatch

HsInit ==
  CrawlIdle /\ fetch = FetchIdle /\ sql = SqlIdle /\ hs = HsStart /\ svc = SvcIdle /\ wire = WireIdle /\ net = NetIdle

\* lines 434 and 485: header[:4] != MAGIC_BYTES breaks
MagicOk(magic) == magic = "testnet"

\* LengthOk with a fault: no sanity ceiling
LengthOkAlways(len) == TRUE

\* lines 438 and 489: payload_len > 5_000_000 breaks
LengthOk(len) == ~(len > SanityCeiling)

\* lines 459 and 467: received_version and received_verack
HandshakeComplete(rv, rk) == rv /\ rk

\* VerackCounts with a fault: a verack is taken only after the version
VerackCountsAfterVersion(rv) == rv

\* lines 456-457: a verack frame sets received_verack whenever it arrives
VerackCounts(rv) == TRUE

\* lines 412-415: open_connection under wait_for(connect_timeout)
HsConnect ==
  /\ hs.pc = "connect"
  /\ \E o \in ConnectOutcomes :
       hs' = IF o = "ok"
             THEN [hs EXCEPT !.pc = "send_version", !.open = TRUE]
             ELSE [hs EXCEPT !.pc = "returned", !.result = "fail",
                             !.error = o,
                             !.events = IF o = "timeout"
                                        THEN hs.events \cup {"connect_timeout"}
                                        ELSE hs.events]
  /\ UNCHANGED <<crawlVars, svc, wire, net, fetch, sql>>

\* lines 418-419: the version message is written and drained
HsSendVersion ==
  /\ hs.pc = "send_version"
  /\ \E w \in AwaitOutcomes :
       hs' = IF w = "ok"
             THEN [hs EXCEPT !.pc = "handshake"]
             ELSE IF w = "pending" THEN Blocked(hs)
             ELSE [hs EXCEPT !.pc = "returned", !.result = "fail",
                             !.error = "exception"]
  /\ UNCHANGED <<crawlVars, svc, wire, net, fetch, sql>>

\* the exit of the handshake loop by break
HsBreak(h) == [h EXCEPT !.pc = "check"]

\* the end of a pass through the handshake loop body without break: the
\* loop ends when range(10) is used up
HsNextPass(h) ==
  [h EXCEPT !.pc = IF h.i = HandshakeBudget THEN "check" ELSE "handshake",
            !.events = IF h.i = HandshakeBudget
                       THEN h.events \cup {"budget"} ELSE h.events]

\* lines 426-465: one pass through the handshake loop for frame f, the
\* verack written in answer to a version having outcome w; h.i counts the
\* passes entered; the checksum field of the header is not looked at, and
\* mismatchUsed records that a frame whose checksum differs was taken
HsPass(h, f, w) ==
  LET p == [h EXCEPT !.i = h.i + 1] IN
  IF f.header # "ok"
  THEN HsBreak([p EXCEPT !.events =
                   IF f.header = "timeout" THEN p.events \cup {"read_timeout"}
                                           ELSE p.events])
  ELSE LET seen == [p EXCEPT !.events =
                      p.events \cup (IF f.magic # "testnet" THEN {"bad_magic"} ELSE {})
                               \cup (IF f.len > SanityCeiling THEN {"oversized"} ELSE {})]
       IN
       IF ~MagicOk(f.magic) THEN HsBreak(seen)
       ELSE IF ~LengthOk(f.len) THEN HsBreak(seen)
       ELSE LET rd == [seen EXCEPT !.rejectedPayloadRead =
                         p.rejectedPayloadRead
                           \/ (f.len > 0 /\ (f.magic # "testnet" \/ f.len > SanityCeiling))]
            IN
            IF f.len > 0 /\ f.payload # "ok"
            THEN HsBreak([rd EXCEPT !.events =
                            IF f.payload = "timeout"
                            THEN rd.events \cup {"read_timeout"} ELSE rd.events])
            ELSE LET rv == IF f.command = "version" THEN TRUE ELSE h.received_version
                     rk == IF f.command = "verack" /\ VerackCounts(h.received_version)
                           THEN TRUE ELSE h.received_verack
                     upd == [rd EXCEPT
                               !.frames = rd.frames \cup {f.command},
                               !.first = IF rd.first = "none"
                                            /\ f.command \in {"version", "verack"}
                                         THEN f.command ELSE rd.first,
                               !.received_version = rv,
                               !.received_verack = rk,
                               !.mismatchUsed =
                                  rd.mismatchUsed
                                    \/ ( /\ f.checksum = "differ"
                                         /\ f.command \in {"version", "verack"} )]
                 IN
                 IF f.command = "version" /\ w = "pending" THEN Blocked(upd)
                 ELSE IF f.command = "version" /\ w = "raise" THEN HsBreak(upd)
                 ELSE IF HandshakeComplete(rv, rk) THEN HsBreak(upd)
                 ELSE HsNextPass(upd)

HsReadFrame ==
  /\ hs.pc = "handshake"
  /\ hs.i < HandshakeBudget
  /\ \E f \in Frames, w \in AwaitOutcomes : hs' = HsPass(hs, f, w)
  /\ UNCHANGED <<crawlVars, svc, wire, net, fetch, sql>>

\* lines 467-474: the handshake is incomplete and the connection is closed,
\* or the getaddr request is written and drained
HsCheck ==
  /\ hs.pc = "check"
  /\ \E w \in AwaitOutcomes :
       hs' = IF w = "pending"
             THEN Blocked([hs EXCEPT
                    !.open = HandshakeComplete(hs.received_version, hs.received_verack),
                    !.ready = HandshakeComplete(hs.received_version, hs.received_verack),
                    !.getaddr = IF HandshakeComplete(hs.received_version, hs.received_verack)
                                THEN hs.getaddr + 1 ELSE hs.getaddr])
             ELSE IF ~HandshakeComplete(hs.received_version, hs.received_verack)
             THEN [hs EXCEPT !.pc = "returned", !.result = "fail",
                             !.open = FALSE,
                             !.error = IF w = "ok" THEN "Handshake incomplete"
                                                   ELSE "exception"]
             ELSE IF w = "ok"
                  THEN [hs EXCEPT !.pc = "addr", !.ready = TRUE,
                                  !.getaddr = hs.getaddr + 1]
                  ELSE [hs EXCEPT !.pc = "returned", !.ready = TRUE,
                                  !.getaddr = hs.getaddr + 1,
                                  !.result = "fail", !.error = "exception"]
  /\ UNCHANGED <<crawlVars, svc, wire, net, fetch, sql>>

HsAddrBreak(h) == [h EXCEPT !.pc = "close"]

HsAddrNextPass(h) ==
  [h EXCEPT !.pc = IF h.j = AddrBudget THEN "close" ELSE "addr"]

\* lines 478-508: one pass through the address loop for frame f; h.j counts
\* the passes entered
HsAddrPass(hh, f) ==
  LET h == [hh EXCEPT !.j = hh.j + 1] IN
  IF f.header # "ok" THEN HsAddrBreak(h)
  ELSE IF ~MagicOk(f.magic) THEN HsAddrBreak(h)
  ELSE IF ~LengthOk(f.len) THEN HsAddrBreak(h)
  ELSE IF f.len > 0
       THEN IF f.payload # "ok" THEN HsAddrBreak(h)
            ELSE IF f.command = "addr"
                 THEN LET ext == [h EXCEPT !.peers = h.peers \o f.addrs,
                                           !.addrAccepted = h.addrAccepted + 1,
                                           !.mismatchUsed =
                                              h.mismatchUsed
                                                \/ ( /\ f.checksum = "differ"
                                                     /\ f.addrs # <<>> )]
                      IN IF f.addrs # <<>> THEN HsAddrBreak(ext)
                                           ELSE HsAddrNextPass(ext)
                 ELSE HsAddrNextPass(h)
       ELSE HsAddrNextPass(h)

HsReadAddrFrame ==
  /\ hs.pc = "addr"
  /\ hs.j < AddrBudget
  /\ \E f \in Frames : hs' = HsAddrPass(hs, f)
  /\ UNCHANGED <<crawlVars, svc, wire, net, fetch, sql>>

\* lines 510-513: close, wait_closed, return success; an exception of
\* wait_closed lands in the handler of line 519
HsClose ==
  /\ hs.pc = "close"
  /\ \E w \in AwaitOutcomes :
       hs' = IF w = "ok"
             THEN [hs EXCEPT !.pc = "returned", !.result = "ok", !.open = FALSE]
             ELSE IF w = "pending" THEN Blocked([hs EXCEPT !.open = FALSE])
             ELSE [hs EXCEPT !.pc = "returned", !.result = "fail",
                             !.error = "exception", !.open = FALSE]
  /\ UNCHANGED <<crawlVars, svc, wire, net, fetch, sql>>

HsNext ==
  \/ HsConnect
  \/ HsSendVersion
  \/ HsReadFrame
  \/ HsCheck
  \/ HsReadAddrFrame
  \/ HsClose

SpecHS == HsInit /\ [][HsNext]_vars

\* the event loop resumes a coroutine whenever the operation it awaits has
\* completed, raised or timed out: a step that is possible is taken
SpecHSLive == HsInit /\ [][HsNext]_vars /\ WF_vars(HsNext)

\* ------------------------------------ BitcoinCrawler.connect_and_crawl
MaxSvcMsgs == 5      \* messages one connection delivers before it ends

SvcInit ==
  CrawlIdle /\ fetch = FetchIdle /\ sql = SqlIdle /\ hs = HsIdle /\ svc = SvcStart /\ wire = WireIdle /\ net = NetIdle

\* line 232: if not verack_received and version_received
SvcVerackCounts(verack_received, version_received) ==
  ~verack_received /\ version_received

\* line 237: if not addr_received
SvcAddrCounts(addr_received, verack_received) == ~addr_received

\* lines 188-200: the stop test, the connect and the version message; an
\* exception of connect or sendall ends in the handler of line 255
SvcConnect ==
  /\ svc.pc = "start"
  /\ \E stop \in BOOLEAN, o \in IoOutcomes :
       svc' = IF stop
              THEN [svc EXCEPT !.pc = "returned", !.result = "fail"]
              ELSE IF o = "ok"
                   THEN [svc EXCEPT !.pc = "loop", !.open = TRUE]
                   ELSE [svc EXCEPT !.pc = "returned", !.result = "fail"]
  /\ UNCHANGED <<crawlVars, hs, wire, net, fetch, sql>>

\* lines 216-243: one message that parse_message accepted is handled; w is
\* the outcome of the sendall it may trigger, addrs the decoded addr payload
SvcHandle(v, command, w, addrs) ==
  LET l == [v EXCEPT !.log = Append(v.log, command)]
      fin(x) == [x EXCEPT !.pc = "returned", !.open = FALSE,
                          !.end = IF x.addr_received THEN "addr" ELSE "send",
                          !.result = IF x.addr_received THEN "ok" ELSE "fail"]
  IN
  IF command = "version" /\ ~v.version_received
  THEN IF w = "ok" THEN [l EXCEPT !.version_received = TRUE]
       ELSE fin([l EXCEPT !.version_received = TRUE])
  ELSE IF command = "verack" /\ SvcVerackCounts(v.verack_received, v.version_received)
  THEN IF w = "ok"
       THEN [l EXCEPT !.verack_received = TRUE, !.getaddr = v.getaddr + 1]
       ELSE fin([l EXCEPT !.verack_received = TRUE, !.getaddr = v.getaddr + 1])
  ELSE IF command = "addr" /\ SvcAddrCounts(v.addr_received, v.verack_received)
  THEN fin([l EXCEPT !.addr_received = TRUE, !.peers = addrs])
  ELSE l

SvcMessage ==
  /\ svc.pc = "loop"
  /\ Len(svc.log) < MaxSvcMsgs
  /\ \E command \in Commands, w \in IoOutcomes, addrs \in HsAddrLists :
       svc' = SvcHandle(svc, command, w, addrs)
  /\ UNCHANGED <<crawlVars, hs, wire, net, fetch, sql>>

\* lines 208-253: recv returns nothing, times out or raises, or the time
\* budget of the loop is used up; the socket is closed and the result is
\* success = addr_received
SvcEnd ==
  /\ svc.pc = "loop"
  /\ svc' = [svc EXCEPT !.pc = "returned", !.open = FALSE, !.end = "recv",
                        !.result = IF svc.addr_received THEN "ok" ELSE "fail"]
  /\ UNCHANGED <<crawlVars, hs, wire, net, fetch, sql>>

SvcNext ==
  \/ SvcConnect
  \/ SvcMessage
  \/ SvcEnd

SpecSvc == SvcInit /\ [][SvcNext]_vars

\* ------------------------------------------- encode_varint, decode_varint
MaxPad == 1          \* bytes in a buffer before the offset decode_varint reads at
MaxFollow == 9       \* bytes in a buffer after the tag byte

\* TLC's integers have 32 bits; an unsigned value of up to 64 bits is kept as
\* four 16-bit limbs, the least significant first, so that no width is lost
LimbBase == 256 * 256
Zero == <<0, 0, 0, 0>>
FromInt(k) == <<k % LimbBase, k \div LimbBase, 0, 0>>

\* data[a:b] of Python (0-based, clipped to the buffer)
Slice(data, a, b) == SubSeq(data, a + 1, Min(b, Len(data)))

\* line 109 (n < 0xfd), line 111 (n <= 0xffff), line 113 (n <= 0xffffffff)
Below253(n) == n[1] < 253 /\ n[2] = 0 /\ n[3] = 0 /\ n[4] = 0
Fits16(n) == n[2] = 0 /\ n[3] = 0 /\ n[4] = 0
Fits32(n) == n[3] = 0 /\ n[4] = 0

\* byte k (0 = least significant) of n
ByteOf(n, k) ==
  IF k % 2 = 0 THEN n[(k \div 2) + 1] % 256 ELSE n[(k \div 2) + 1] \div 256

\* pack_le with a fault: the most significant byte first
pack_be(n, width) == [i \in 1..width |-> ByteOf(n, width - i)]

\* struct.pack('<H' | '<I' | '<Q', n): width bytes, least significant first
pack_le(n, width) == [i \in 1..width |-> ByteOf(n, i - 1)]

\* struct.unpack('<H' | '<I' | '<Q', bytes)[0]
unpack_le(bytes) ==
  [j \in 1..4 |-> IF 2 * j <= Len(bytes)
                  THEN bytes[2 * j - 1] + 256 * bytes[2 * j] ELSE 0]

\* lines 107-116
encode_varint(n) ==
  IF Below253(n) THEN <<n[1]>>
  ELSE IF Fits16(n) THEN <<253>> \o pack_le(n, 2)
  ELSE IF Fits32(n) THEN <<254>> \o pack_le(n, 4)
  ELSE <<255>> \o pack_le(n, 8)

\* a call of decode_varint that returned (value, new_offset); raised tells
\* whether the call ended by an exception instead
Returned(value, offset) == [raised |-> FALSE, value |-> value, offset |-> offset]
NoDecode == [raised |-> FALSE, value |-> Zero, offset |-> -1]

\* lines 119-138: every path returns a pair, a short buffer returns
\* (0, offset)
decode_varint(data, offset) ==
  IF offset >= Len(data) THEN Returned(Zero, offset)
  ELSE LET first == data[offset + 1] IN
       IF first < 253 THEN Returned(FromInt(first), offset + 1)
       ELSE IF first = 253
            THEN IF offset + 3 > Len(data) THEN Returned(Zero, offset)
                 ELSE Returned(unpack_le(Slice(data, offset + 1, offset + 3)), offset + 3)
       ELSE IF first = 254
            THEN IF offset + 5 > Len(data) THEN Returned(Zero, offset)
                 ELSE Returned(unpack_le(Slice(data, offset + 1, offset + 5)), offset + 5)
       ELSE IF offset + 9 > Len(data) THEN Returned(Zero, offset)
            ELSE Returned(unpack_le(Slice(data, offset + 1, offset + 9)), offset + 9)

\* the numbers encode_varint is applied to: both sides of each boundary of
\* lines 109-115 in every limb
VarintNumbers ==
  {<<a, b, c, d>> : a \in {0, 252, 253, 254, 255, 256, 1000, 65535},
                    b \in {0, 1, 65535}, c \in {0, 1}, d \in {0, 65535}}

\* the buffers decode_varint is applied to: up to MaxPad bytes, then a tag
\* byte followed by up to MaxFollow bytes, or nothing at all at the offset
FollowByte(i) == (i * 37) % 256
VarintTags == {0, 252, 253, 254, 255}
VarintBuffers ==
  {[data |-> [i \in 1..p |-> 255], offset |-> p] : p \in 0..MaxPad}
    \cup {[data |-> [i \in 1..p |-> 255] \o <<t>> \o [i \in 1..k |-> FollowByte(i)],
           offset |-> p] : p \in 0..MaxPad, t \in VarintTags, k \in 0..MaxFollow}

VarintInputs ==
  {[pc |-> "number", n |-> n, data |-> <<>>, offset |-> 0,
    enc |-> <<>>, dec |-> NoDecode] : n \in VarintNumbers}
    \cup {[pc |-> "buffer", n |-> Zero, data |-> b.data, offset |-> b.offset,
           enc |-> <<>>, dec |-> NoDecode] : b \in VarintBuffers}

VarintInit ==
  /\ CrawlIdle /\ fetch = FetchIdle /\ sql = SqlIdle /\ hs = HsIdle /\ svc = SvcIdle /\ net = NetIdle
  /\ wire \in VarintInputs

EncodeVarint ==
  /\ wire.pc = "number"
  /\ wire' = [wire EXCEPT !.pc = "encoded", !.enc = encode_varint(wire.n)]
  /\ UNCHANGED <<crawlVars, hs, svc, net, fetch, sql>>

DecodeEncoded ==
  /\ wire.pc = "encoded"
  /\ wire' = [wire EXCEPT !.pc = "decoded", !.dec = decode_varint(wire.enc, 0)]
  /\ UNCHANGED <<crawlVars, hs, svc, net, fetch, sql>>

DecodeBuffer ==
  /\ wire.pc = "buffer"
  /\ wire' = [wire EXCEPT !.pc = "read",
                          !.dec = decode_varint(wire.data, wire.offset)]
  /\ UNCHANGED <<crawlVars, hs, svc, net, fetch, sql>>

VarintNext ==
  \/ EncodeVarint
  \/ DecodeEncoded
  \/ DecodeBuffer

SpecVarint == VarintInit /\ [][VarintNext]_vars

\* ----------------------------------------------------- parse_addr_payload
MaxRecs == 3         \* complete records in a short addr payload

AddrCeiling == 1000
RecordSize == 30

\* the 12 bytes in front of the IPv4 address of an address field: the
\* IPv4-mapped prefix of line 251, and three that differ from it
PrefixBytes(p) ==
  IF p = "mapped" THEN [i \in 1..12 |-> IF i > 10 THEN 255 ELSE 0]
  ELSE IF p = "zeros" THEN [i \in 1..12 |-> 0]
  ELSE IF p = "half" THEN [i \in 1..12 |-> IF i = 11 THEN 255 ELSE 0]
  ELSE <<32, 1, 13, 184, 0, 0, 0, 0, 0, 0, 255, 255>>
Prefixes == {"mapped", "zeros", "half", "ipv6"}

\* IPv4 addresses on both sides of every test of is_public_ipv4
IPv4Samples ==
  {<<10, 0, 0, 5>>, <<203, 0, 113, 5>>, <<9, 255, 255, 255>>, <<11, 0, 0, 0>>,
   <<172, 15, 255, 255>>, <<172, 16, 0, 0>>, <<172, 31, 255, 255>>,
   <<172, 32, 0, 0>>, <<171, 16, 0, 1>>, <<173, 20, 0, 1>>,
   <<192, 168, 0, 1>>, <<192, 167, 255, 255>>, <<192, 169, 0, 0>>,
   <<191, 168, 1, 1>>, <<127, 0, 0, 1>>, <<126, 255, 255, 255>>,
   <<128, 0, 0, 1>>, <<0, 0, 0, 0>>, <<0, 1, 2, 3>>, <<1, 0, 0, 0>>,
   <<223, 255, 255, 255>>, <<224, 0, 0, 0>>, <<255, 255, 255, 255>>,
   <<8, 8, 8, 8>>}
PortSamples == {8333, 1, 65535}

\* one 30-byte record of an addr payload as the peer lays it out: timestamp
\* (4), services (8), address field (16), port (2, big-endian)
RecordBytes(r) ==
  [i \in 1..12 |-> FollowByte(i)] \o PrefixBytes(r.prefix) \o r.ip
    \o <<r.port \div 256, r.port % 256>>

\* an addr payload on the wire: the bytes of the count, the complete
\* records, then tail bytes of a record that was cut off
PayloadBytes(hdr, recs, tail) ==
  hdr
    \o [i \in 1..(RecordSize * Len(recs)) |->
          RecordBytes(recs[((i - 1) \div RecordSize) + 1])[((i - 1) % RecordSize) + 1]]
    \o [i \in 1..tail |-> FollowByte(i)]

\* socket.inet_ntoa(ip_bytes[12:16]) followed by the split('.') and int() of
\* is_public_ipv4: the four numbers of the dotted quad
inet_ntoa(bytes) == [i \in 1..4 |-> bytes[i]]

\* is_public_ipv4 with a fault: of 172.16.0.0/12 only 172.16.x.x is excluded
is_public_ipv4_only_172_16(parts) ==
  /\ Len(parts) = 4
  /\ ~(parts[1] = 10)
  /\ ~(parts[1] = 172 /\ parts[2] = 16)
  /\ ~(parts[1] = 192 /\ parts[2] = 168)
  /\ ~(parts[1] = 127)
  /\ ~(parts[1] = 0)
  /\ ~(parts[1] >= 224)

\* lines 146-173
is_public_ipv4(parts) ==
  /\ Len(parts) = 4
  /\ ~(parts[1] = 10)
  /\ ~(parts[1] = 172 /\ 16 <= parts[2] /\ parts[2] <= 31)
  /\ ~(parts[1] = 192 /\ parts[2] = 168)
  /\ ~(parts[1] = 127)
  /\ ~(parts[1] = 0)
  /\ ~(parts[1] >= 224)

\* line 233: min(count, 1000)
RecordBudget(count) ==
  IF Fits16(count) /\ count[1] <= AddrCeiling THEN count[1] ELSE AddrCeiling

\* RecordInside with a fault: only timestamp and services must be inside
RecordInsideHeaderOnly(offset, len) == ~(offset + 12 > len)

\* line 234: a pass goes on only if offset + 30 <= len(payload)
RecordInside(offset, len) == ~(offset + RecordSize > len)

\* line 247: struct.unpack('>H', ...)
unpack_port(bytes) == bytes[1] * 256 + bytes[2]

\* lines 234-254: one pass of the loop over the records; w.k counts the
\* records decoded, partialRead records a field read from a record that is
\* not wholly inside the payload
AddrPass(w) ==
  LET len == Len(w.payload) IN
  IF ~RecordInside(w.offset, len) THEN [w EXCEPT !.pc = "done"]
  ELSE LET ip_bytes == Slice(w.payload, w.offset + 12, w.offset + 28)
           offset == w.offset + 28
           rd == [w EXCEPT !.partialRead =
                     w.partialRead \/ w.offset + RecordSize > len]
       IN
       IF offset + 2 > len THEN [rd EXCEPT !.pc = "done", !.offset = offset]
       ELSE LET port == unpack_port(Slice(w.payload, offset, offset + 2))
                take == /\ Slice(ip_bytes, 0, 12) = PrefixBytes("mapped")
                        /\ is_public_ipv4(inet_ntoa(Slice(ip_bytes, 12, 16)))
                ip == inet_ntoa(Slice(ip_bytes, 12, 16))
            IN [rd EXCEPT !.offset = offset + 2,
                          !.k = w.k + 1,
                          !.peers = IF take THEN Append(w.peers, <<ip, port>>)
                                            ELSE w.peers,
                          !.pc = IF w.k + 1 = w.budget THEN "done" ELSE "loop"]

\* the records addr payloads are built from
SingleRecords == [prefix : Prefixes, ip : IPv4Samples, port : PortSamples]
RecPool ==
  {[prefix |-> "mapped", ip |-> <<203, 0, 113, 5>>, port |-> 8333],
   [prefix |-> "mapped", ip |-> <<10, 0, 0, 5>>, port |-> 8333],
   [prefix |-> "mapped", ip |-> <<8, 8, 8, 8>>, port |-> 1]}
BigRecs(n) ==
  [i \in 1..n |-> [prefix |-> "mapped",
                   ip |-> IF i % 2 = 1 THEN <<203, 0, 113, 5>> ELSE <<10, 0, 0, 5>>,
                   port |-> 8333]]
Tails == {0, 1, RecordSize - 1}

\* the count as the peer encodes it, in the shortest form or in three bytes
CountHeader(c, wide) ==
  IF wide THEN <<253>> \o pack_le(FromInt(c), 2) ELSE encode_varint(FromInt(c))

\* a count whose bytes stop before the width the tag declares
TruncatedHeaders ==
  {<<>>, <<253>>, <<253, 1>>, <<254, 1, 0, 0>>, <<255, 1, 0, 0, 0, 0, 0, 0>>}

\* the payloads parse_addr_payload is applied to: one record of every kind;
\* up to MaxRecs records with a declared count below, at and above the
\* number present and with a cut-off record behind them; a truncated count;
\* more than 1000 records
AddrInputs ==
  {[hdr |-> CountHeader(1, FALSE), declared |-> 1, recs |-> <<r>>, tail |-> 0] :
      r \in SingleRecords}
    \cup {[hdr |-> CountHeader(c, wide), declared |-> c, recs |-> rs, tail |-> t] :
            c \in 0..(MaxRecs + 1), wide \in BOOLEAN,
            rs \in SeqsUpTo(RecPool, MaxRecs), t \in Tails}
    \cup {[hdr |-> h, declared |-> -1, recs |-> <<>>, tail |-> 0] :
            h \in TruncatedHeaders}
    \cup {[hdr |-> CountHeader(AddrCeiling + 1, FALSE), declared |-> AddrCeiling + 1,
           recs |-> BigRecs(AddrCeiling + 1), tail |-> 0],
          [hdr |-> CountHeader(LimbBase - 1, FALSE), declared |-> LimbBase - 1,
           recs |-> BigRecs(AddrCeiling + 2), tail |-> 1]}

\* parse_addr_payload before its first statement
AddrStartState(in) ==
  [pc |-> "payload", in |-> in,
   payload |-> PayloadBytes(in.hdr, in.recs, in.tail),
   count |-> Zero, budget |-> 0, k |-> 0, offset |-> 0, peers |-> <<>>,
   partialRead |-> FALSE]

AddrInit ==
  /\ CrawlIdle /\ fetch = FetchIdle /\ sql = SqlIdle /\ hs = HsIdle /\ svc = SvcIdle /\ net = NetIdle
  /\ wire \in {AddrStartState(in) : in \in AddrInputs}

\* lines 230-233: the count is decoded and the loop is set up
AddrStart ==
  /\ wire.pc = "payload"
  /\ LET d == decode_varint(wire.payload, 0)
         b == RecordBudget(d.value)
     IN wire' = [wire EXCEPT !.count = d.value, !.offset = d.offset,
                             !.budget = b,
                             !.pc = IF b = 0 THEN "done" ELSE "loop"]
  /\ UNCHANGED <<crawlVars, hs, svc, net, fetch, sql>>

\* lines 233-256: one pass of the loop; at "done" peers is returned
AddrRecord ==
  /\ wire.pc = "loop"
  /\ wire' = AddrPass(wire)
  /\ UNCHANGED <<crawlVars, hs, svc, net, fetch, sql>>

AddrNext ==
  \/ AddrStart
  \/ AddrRecord

SpecAddr == AddrInit /\ [][AddrNext]_vars

\* -------------------------------------------- BitcoinCrawler.crawl_network
NumNodes == 3        \* nodes ("ip:port" keys) the DNS seeds and peers name
MaxNetSeeds == 2     \* nodes the DNS seeds resolve to
MaxNetPeers == 1     \* addresses one successful attempt returns
MaxNodesArg == 2     \* largest max_nodes

ToCrawlCap == 500

NetNodes == 1..NumNodes
NoNode == 0

\* BitcoinCrawler.__init__ followed by the call of crawl_network
NetStart(max_nodes) ==
  [crawler |-> "BitcoinCrawler", pc |-> "start", max_nodes |-> max_nodes,
   to_crawl |-> <<>>, crawled |-> {},
   discovered_nodes |-> {}, stop_event |-> FALSE, cur |-> NoNode,
   taken |-> {}, aborted |-> FALSE, attempted |-> {}, skipped |-> {}]

NetInit ==
  /\ CrawlIdle /\ fetch = FetchIdle /\ sql = SqlIdle /\ hs = HsIdle /\ svc = SvcIdle /\ wire = WireIdle
  /\ net \in {NetStart(m) : m \in 1..MaxNodesArg}

\* what connect_and_crawl hands back once its socket was opened
NetResults ==
  {[success |-> FALSE, peers |-> <<>>]}
    \cup {[success |-> TRUE, peers |-> p] : p \in SeqsUpTo(NetNodes, MaxNetPeers)}

\* lines 270-274: the seeds are put on the queue
NetSeed ==
  /\ net.pc = "start"
  /\ \E seed_nodes \in SeqsUpTo(NetNodes, MaxNetSeeds) :
       net' = [net EXCEPT !.pc = "loop", !.to_crawl = seed_nodes]
  /\ UNCHANGED <<crawlVars, hs, svc, wire, fetch, sql>>

\* lines 277-283: the loop test; timed_out is the test of the time budget
NetLoopCheck ==
  /\ net.pc = "loop"
  /\ \E timed_out \in BOOLEAN :
       net' = IF /\ net.to_crawl # <<>>
                 /\ Cardinality(net.discovered_nodes) < net.max_nodes
                 /\ ~timed_out
                 /\ ~net.stop_event
              THEN [net EXCEPT !.pc = "pop"]
              ELSE [net EXCEPT !.pc = "exited"]
  /\ UNCHANGED <<crawlVars, hs, svc, wire, fetch, sql>>

\* line 285: to_crawl.popleft(); taken records the addresses dequeued
NetPop ==
  /\ net.pc = "pop"
  /\ net' = [net EXCEPT !.pc = "mark", !.cur = Head(net.to_crawl),
                        !.to_crawl = Tail(net.to_crawl),
                        !.taken = net.taken \cup {Head(net.to_crawl)}]
  /\ UNCHANGED <<crawlVars, hs, svc, wire, fetch, sql>>

\* NetMark with a fault: the test of line 288 is left out
NetMarkAlways ==
  /\ net.pc = "mark"
  /\ net' = [net EXCEPT !.pc = "call", !.crawled = net.crawled \cup {net.cur}]
  /\ UNCHANGED <<crawlVars, hs, svc, wire, fetch, sql>>

\* lines 286-291: a crawled node is skipped, a new one is added to crawled;
\* skipped records the nodes that were dequeued and skipped
NetMark ==
  /\ net.pc = "mark"
  /\ net' = IF net.cur \in net.crawled
            THEN [net EXCEPT !.pc = "loop", !.skipped = net.skipped \cup {net.cur}]
            ELSE [net EXCEPT !.pc = "call", !.crawled = net.crawled \cup {net.cur}]
  /\ UNCHANGED <<crawlVars, hs, svc, wire, fetch, sql>>

\* lines 297 and 188-197: connect_and_crawl returns at once if the stop event
\* is set, otherwise it opens its socket; attempted records the nodes a
\* network attempt was started for
NetCall ==
  /\ net.pc = "call"
  /\ net' = IF net.stop_event
            THEN [net EXCEPT !.pc = "loop"]
            ELSE [net EXCEPT !.pc = "inflight",
                             !.attempted = net.attempted \cup {net.cur}]
  /\ UNCHANGED <<crawlVars, hs, svc, wire, fetch, sql>>

\* lines 304-311: the peers of a successful attempt that are put on the
\* queue, one after the other
RECURSIVE Enqueue(_, _, _, _)
Enqueue(to_crawl, peers, discovered, v) ==
  IF peers = <<>> THEN to_crawl
  ELSE Enqueue(IF /\ peers[1] \notin discovered
                  /\ peers[1] \notin v.crawled
                  /\ Len(to_crawl) < ToCrawlCap
                  /\ Cardinality(discovered) < v.max_nodes
               THEN Append(to_crawl, peers[1]) ELSE to_crawl,
               Tail(peers), discovered, v)

\* lines 198-262 and 299-313: the attempt ends and its result is processed
NetAttemptEnds ==
  /\ net.pc = "inflight"
  /\ \E result \in NetResults :
       net' = IF result.success
              THEN LET discovered == net.discovered_nodes \cup {net.cur}
                   IN [net EXCEPT !.pc = "loop",
                                  !.discovered_nodes = discovered,
                                  !.to_crawl = Enqueue(net.to_crawl, result.peers,
                                                       discovered, net)]
              ELSE [net EXCEPT !.pc = "loop"]
  /\ UNCHANGED <<crawlVars, hs, svc, wire, fetch, sql>>

\* line 42: stop_event is an attribute of the crawler; a holder of the
\* object sets it from another thread
NetStopRequested ==
  /\ net.pc \notin {"exited", "killed"}
  /\ ~net.stop_event
  /\ net' = [net EXCEPT !.stop_event = TRUE]
  /\ UNCHANGED <<crawlVars, hs, svc, wire, fetch, sql>>

\* lines 332-337: SIGINT or SIGTERM arrives while crawl_network runs in the
\* main thread; the handler sets stop_event and calls sys.exit(0), whose
\* SystemExit unwinds crawl_network from the statement it was at (the finally
\* clause of connect_and_crawl closes the socket of an attempt in flight)
NetSignal ==
  /\ net.pc \notin {"exited", "killed"}
  /\ net' = [net EXCEPT !.pc = "killed", !.stop_event = TRUE,
                        !.aborted = net.pc = "inflight"]
  /\ UNCHANGED <<crawlVars, hs, svc, wire, fetch, sql>>

NetNext ==
  \/ NetSeed
  \/ NetLoopCheck
  \/ NetPop
  \/ NetMark
  \/ NetCall
  \/ NetAttemptEnds
  \/ NetStopRequested
  \/ NetSignal

SpecNet == NetInit /\ [][NetNext]_vars

\* ------------------------------------- one batch of crawl() being processed
DiscBatchMax == 2    \* workers of the batch

\* what the store and visited can hold about a host when a batch is in
\* flight: nothing; a record in the uncontacted set; a record in the
\* contacted set, left by this run (visited) or by an earlier run on the same
\* Redis database (not visited)
HostStates ==
  {[rec |-> NoPeer, visited |-> FALSE],
   [rec |-> [port |-> DefaultPort, contacted |-> "0", success |-> "0"],
    visited |-> FALSE]}
    \cup {[rec |-> [port |-> DefaultPort, contacted |-> "1", success |-> "1"],
           visited |-> v] : v \in BOOLEAN}

\* the store built from the state of every host in IPs and a batch of n hosts
DiscDB(hostState, n) ==
  LET batch == {NumIPs + i : i \in 1..n}
      rec(ip) == IF ip \in batch
                 THEN [port |-> DefaultPort, contacted |-> "0", success |-> "0"]
                 ELSE IF ip \in IPs THEN hostState[ip].rec ELSE NoPeer
      known == {ip \in AllIPs : rec(ip) # NoPeer}
  IN [peer |-> [ip \in AllIPs |-> rec(ip)],
      uncontacted |-> {ip \in known : rec(ip).contacted = "0"},
      contacted |-> {ip \in known : rec(ip).contacted = "1"},
      successful |-> {ip \in known : rec(ip).success = "1"},
      all |-> known]

\* crawl() suspended at gather (line 616) with a batch of n workers in flight
DiscInit ==
  /\ \E hostState \in [IPs -> HostStates], n \in 1..DiscBatchMax :
       /\ db = DiscDB(hostState, n)
       /\ visited = {ip \in IPs : hostState[ip].visited} \cup {NumIPs + i : i \in 1..n}
       /\ peers_to_process = [i \in 1..n |-> <<NumIPs + i, DefaultPort>>]
       /\ results = [i \in 1..n |-> Pending]
       /\ dispatched = [a \in AllAddr |->
                          IF a[1] \in {NumIPs + i : i \in 1..n} THEN 1 ELSE 0]
       /\ totalAtDispatch = <<Cardinality(DiscDB(hostState, n).all)>>
       /\ frontierAtDispatch = <<Cardinality(DiscDB(hostState, n).uncontacted)>>
  /\ config = [target_peers |-> ScenIPs, concurrency |-> DiscBatchMax,
               max_iterations |-> 1]
  /\ stats = NewStats
  /\ pc = "gather"
  /\ iteration = 0
  /\ final_stats = NoSummary
  /\ lastBatch = NoBatch
  /\ hs = HsIdle
  /\ svc = SvcIdle
  /\ wire = WireIdle
  /\ net = NetIdle
  /\ fetch = FetchIdle /\ sql = SqlIdle

DiscNext ==
  \/ WorkerReturns
  \/ ProcessResults

SpecDisc == DiscInit /\ [][DiscNext]_vars

\* ----------------------- BitcoinCrawler.parse_addr_message (services)
SvcAddrCeiling == 1000
SvcRecordSize == 30

\* a call of read_varint returns the pair (value, size)
Sized(value, size) == [value |-> value, size |-> size]

\* lines 129-148: a short buffer returns (0, 0)
read_varint(data, offset) ==
  IF offset >= Len(data) THEN Sized(Zero, 0)
  ELSE LET first == data[offset + 1] IN
       IF first < 253 THEN Sized(FromInt(first), 1)
       ELSE IF first = 253
            THEN IF offset + 3 > Len(data) THEN Sized(Zero, 0)
                 ELSE Sized(unpack_le(Slice(data, offset + 1, offset + 3)), 3)
       ELSE IF first = 254
            THEN IF offset + 5 > Len(data) THEN Sized(Zero, 0)
                 ELSE Sized(unpack_le(Slice(data, offset + 1, offset + 5)), 5)
       ELSE IF offset + 9 > Len(data) THEN Sized(Zero, 0)
            ELSE Sized(unpack_le(Slice(data, offset + 1, offset + 9)), 9)

\* line 158: min(count, 1000)
SvcRecordBudget(count) ==
  IF Fits16(count) /\ count[1] <= SvcAddrCeiling THEN count[1] ELSE SvcAddrCeiling

\* lines 168-170: the test the address field must pass
is_ipv4(ip_bytes) ==
  /\ Slice(ip_bytes, 0, 12) = [i \in 1..12 |-> 0]
  /\ Slice(ip_bytes, 12, 14) = <<0, 0>>
  /\ Slice(ip_bytes, 14, 16) = <<255, 255>>

\* socket.inet_ntoa accepts a packed address of exactly four bytes and
\* raises OSError for any other length
PackedLengthOk(packed) == Len(packed) = 4

\* lines 160-182: one pass of the loop over the records; an exception of
\* inet_ntoa (line 173) leaves the function
SvcAddrPass(w) ==
  LET len == Len(w.payload) IN
  IF w.offset + SvcRecordSize > len THEN [w EXCEPT !.pc = "done"]
  ELSE LET ip_bytes == Slice(w.payload, w.offset + 12, w.offset + 28)
           packed == Slice(ip_bytes, 16, 20)
           port == unpack_port(Slice(w.payload, w.offset + 28, w.offset + 30))
           next == [w EXCEPT !.offset = w.offset + SvcRecordSize,
                             !.i = w.i + 1,
                             !.pc = IF w.i + 1 = w.budget THEN "done" ELSE "loop"]
       IN IF ~is_ipv4(ip_bytes) THEN next
          ELSE IF ~PackedLengthOk(packed) THEN [w EXCEPT !.pc = "raised"]
          ELSE [next EXCEPT !.addresses =
                              Append(w.addresses, <<inet_ntoa(packed), port>>)]

\* an address field of fourteen zero bytes followed by ff ff
ShiftedRecord == [prefix |-> "zeros", ip |-> <<0, 0, 255, 255>>, port |-> 8333]

\* the payloads parse_addr_message is applied to: one record of every kind;
\* up to MaxRecs records with a declared count below, at and above the
\* number present; an empty payload
SvcAddrInputs ==
  {[hdr |-> CountHeader(1, FALSE), declared |-> 1, recs |-> <<r>>, tail |-> 0] :
      r \in SingleRecords \cup {ShiftedRecord}}
    \cup {[hdr |-> CountHeader(c, wide), declared |-> c, recs |-> rs, tail |-> 0] :
            c \in 0..(MaxRecs + 1), wide \in BOOLEAN,
            rs \in SeqsUpTo(RecPool, MaxRecs)}
    \cup {[hdr |-> <<>>, declared |-> -1, recs |-> <<>>, tail |-> 0]}

\* parse_addr_message before its first statement
SvcAddrStartState(in) ==
  [pc |-> "payload", in |-> in,
   payload |-> PayloadBytes(in.hdr, in.recs, in.tail),
   count |-> Zero, budget |-> 0, i |-> 0, offset |-> 0, addresses |-> <<>>]

SvcAddrInit ==
  /\ CrawlIdle /\ fetch = FetchIdle /\ sql = SqlIdle /\ hs = HsIdle /\ svc = SvcIdle /\ net = NetIdle
  /\ wire \in {SvcAddrStartState(in) : in \in SvcAddrInputs}

\* lines 152-158: the empty payload returns at once; the count is read and
\* the loop is set up
SvcAddrStart ==
  /\ wire.pc = "payload"
  /\ LET r == read_varint(wire.payload, 0)
         b == SvcRecordBudget(r.value)
     IN wire' = IF Len(wire.payload) < 1
                THEN [wire EXCEPT !.pc = "done"]
                ELSE [wire EXCEPT !.count = r.value, !.offset = r.size,
                                  !.budget = b,
                                  !.pc = IF b = 0 THEN "done" ELSE "loop"]
  /\ UNCHANGED <<crawlVars, hs, svc, net, fetch, sql>>

\* lines 160-184: one pass of the loop; at "done" addresses is returned
SvcAddrRecord ==
  /\ wire.pc = "loop"
  /\ wire' = SvcAddrPass(wire)
  /\ UNCHANGED <<crawlVars, hs, svc, net, fetch, sql>>

SvcAddrNext ==
  \/ SvcAddrStart
  \/ SvcAddrRecord

SpecSvcAddr == SvcAddrInit /\ [][SvcAddrNext]_vars

\* --------------- BitcoinCrawler.create_message / parse_message (services)
MaxPayload == 2      \* bytes of a message payload

MAGIC_BYTES == <<249, 190, 180, 217>>
HeaderSize == 24
CommandSize == 12

\* a weighted sum of the bytes of a buffer
RECURSIVE WeightedSum(_, _)
WeightedSum(bytes, i) ==
  IF i > Len(bytes) THEN 0
  ELSE (i * (bytes[i] + 1) + 31 * WeightedSum(bytes, i + 1)) % LimbBase

\* hashlib.sha256(hashlib.sha256(payload).digest()).digest()[:4]: four bytes
\* that are a function of the payload alone. The digest itself is replaced
\* by a small deterministic function of the bytes; create_message and
\* parse_message use the same one, as they use the same hashlib call.
sha256d4(payload) ==
  LET s == WeightedSum(payload, 1)
  IN <<s % 256, s \div 256, (Len(payload) + 93) % 256, (7 * s + 227) % 256>>

\* bytes.ljust(12, b'\x00'): padded to the width, never shortened
ljust(bytes, width) ==
  bytes \o [i \in 1..(IF Len(bytes) < width THEN width - Len(bytes) ELSE 0) |-> 0]

\* rstrip with a fault: every zero byte is removed
strip_every_nul(bytes) == SelectSeq(bytes, LAMBDA b : b # 0)

\* bytes.rstrip(b'\x00'): the trailing zero bytes are removed
rstrip(bytes) ==
  LET nz == {i \in 1..Len(bytes) : bytes[i] # 0}
  IN IF nz = {} THEN <<>>
     ELSE SubSeq(bytes, 1, CHOOSE i \in nz : \A j \in nz : j <= i)

\* bytes.decode('ascii', errors='ignore'): bytes above 127 are dropped
decode_ascii(bytes) == SelectSeq(bytes, LAMBDA b : b < 128)

\* lines 60-67; command is the sequence of the ASCII codes of the string
create_message(command, payload) ==
  MAGIC_BYTES \o ljust(command, CommandSize)
    \o pack_le(FromInt(Len(payload)), 4) \o sha256d4(payload) \o payload

\* what parse_message returns: None, or the dict of line 127
None == [none |-> TRUE, command |-> <<>>, payload |-> <<>>]
Message(command, payload) == [none |-> FALSE, command |-> command, payload |-> payload]

\* line 118: len(data) < 24 + payload_length
Incomplete(data, payload_length) ==
  ~Fits16(payload_length) \/ Len(data) < HeaderSize + payload_length[1]

\* lines 105-127
parse_message(data) ==
  IF Len(data) < HeaderSize THEN None
  ELSE IF Slice(data, 0, 4) # MAGIC_BYTES THEN None
  ELSE LET command == decode_ascii(rstrip(Slice(data, 4, 16)))
           payload_length == unpack_le(Slice(data, 16, 20))
           checksum == Slice(data, 20, 24)
       IN IF Incomplete(data, payload_length) THEN None
          ELSE LET payload == Slice(data, HeaderSize, HeaderSize + payload_length[1])
               IN IF sha256d4(payload) # checksum THEN None
                  ELSE Message(command, payload)

\* the commands create_message is applied to, as ASCII codes: the empty
\* string, version, verack, addr, getaddr, a 12-byte name, a name with a
\* zero byte inside, names that end with a zero byte
CommandSamples ==
  {<<>>,
   <<118, 101, 114, 115, 105, 111, 110>>,
   <<118, 101, 114, 97, 99, 107>>,
   <<97, 100, 100, 114>>,
   <<103, 101, 116, 97, 100, 100, 114>>,
   <<97, 98, 99, 100, 101, 102, 103, 104, 105, 106, 107, 108>>,
   <<97, 0, 98>>,
   <<97, 98, 0>>,
   <<0>>}
PayloadByteSamples == {0, 1, 255}
PayloadSamples == SeqsUpTo(PayloadByteSamples, MaxPayload)

\* what happens to the bytes between the sender and parse_message
Tampers ==
  {"none", "magic", "cut", "header_only", "checksum", "payload", "longer",
   "declared_up", "declared_wide"}

Bump(b) == (b + 1) % 256

Tampered(data, t) ==
  IF t = "magic" THEN <<11, 17, 9, 7>> \o Slice(data, 4, Len(data))
  ELSE IF t = "cut" THEN Slice(data, 0, Len(data) - 1)
  ELSE IF t = "header_only" THEN Slice(data, 0, HeaderSize - 4)
  ELSE IF t = "checksum" THEN [data EXCEPT ![21] = Bump(data[21])]
  ELSE IF t = "payload"
       THEN [i \in 1..Len(data) |-> IF i = Len(data) /\ i > HeaderSize
                                    THEN Bump(data[i]) ELSE data[i]]
  ELSE IF t = "longer" THEN data \o <<249, 190>>
  ELSE IF t = "declared_up" THEN [data EXCEPT ![17] = Bump(data[17])]
  ELSE IF t = "declared_wide" THEN [data EXCEPT ![20] = 1]
  ELSE data

\* no message has been built yet
MsgStart(command, payload, tamper) ==
  [pc |-> "create", command |-> command, payload |-> payload,
   tamper |-> tamper, data |-> <<>>, msg |-> None]

MsgInit ==
  /\ CrawlIdle /\ fetch = FetchIdle /\ sql = SqlIdle /\ hs = HsIdle /\ svc = SvcIdle /\ net = NetIdle
  /\ wire \in {MsgStart(c, p, t) :
                 c \in CommandSamples, p \in PayloadSamples, t \in Tampers}

\* the sender builds the message and the bytes travel to the receiver
CreateMessage ==
  /\ wire.pc = "create"
  /\ wire' = [wire EXCEPT
                !.data = Tampered(create_message(wire.command, wire.payload),
                                  wire.tamper),
                !.pc = "parse"]
  /\ UNCHANGED <<crawlVars, hs, svc, net, fetch, sql>>

\* line 217: parse_message is applied to the buffer
ParseMessage ==
  /\ wire.pc = "parse"
  /\ wire' = [wire EXCEPT !.msg = parse_message(wire.data), !.pc = "done"]
  /\ UNCHANGED <<crawlVars, hs, svc, net, fetch, sql>>

MsgNext ==
  \/ CreateMessage
  \/ ParseMessage

SpecMsg == MsgInit /\ [][MsgNext]_vars

\* ------- BitcoinPeerCrawler.crawl_from_seed and SimpleCrawler.crawl
DnsSeedLimit == 20

\* BitcoinPeerCrawler.__init__ followed by the call of crawl_from_seed
PeerStart(max_peers) ==
  [crawler |-> "BitcoinPeerCrawler", pc |-> "start", max_peers |-> max_peers,
   peer_queue |-> <<>>, discovered_peers |-> {}, visited_peers |-> {},
   cur |-> NoNode, attempted |-> {}, skipped |-> {}]

\* SimpleCrawler.__init__ followed by the call of crawl
SimpleStart(max_nodes) ==
  [crawler |-> "SimpleCrawler", pc |-> "start", max_nodes |-> max_nodes,
   queue |-> <<>>, discovered |-> {}, visited |-> {},
   cur |-> NoNode, attempted |-> {}, skipped |-> {}]

SeqInit ==
  /\ CrawlIdle /\ fetch = FetchIdle /\ sql = SqlIdle /\ hs = HsIdle /\ svc = SvcIdle /\ wire = WireIdle
  /\ net \in {NetStart(m) : m \in 1..MaxNodesArg}
              \cup {PeerStart(m) : m \in 1..MaxNodesArg}
              \cup {SimpleStart(m) : m \in 1..MaxNodesArg}

\* bitcoin_peer_crawler.py lines 310-312 and 338-340: every peer that is not
\* in discovered_peers is added to it and put on the queue
RECURSIVE PeerEnqueue(_, _)
PeerEnqueue(v, peers) ==
  IF peers = <<>> THEN v
  ELSE PeerEnqueue(IF peers[1] \notin v.discovered_peers
                   THEN [v EXCEPT !.peer_queue = Append(v.peer_queue, peers[1]),
                                  !.discovered_peers =
                                      v.discovered_peers \cup {peers[1]}]
                   ELSE v,
                   Tail(peers))

\* lines 308-317: the first 20 DNS peers and the seed peer, if one is given
PeerSeed ==
  /\ net.pc = "start"
  /\ net.crawler = "BitcoinPeerCrawler"
  /\ \E dns_peers \in SeqsUpTo(NetNodes, MaxNetSeeds),
        seed_peer \in NetNodes \cup {NoNode} :
       LET seeded == PeerEnqueue(net, Slice(dns_peers, 0, DnsSeedLimit))
       IN net' = [(IF seed_peer # NoNode
                   THEN PeerEnqueue(seeded, <<seed_peer>>)
                   ELSE seeded) EXCEPT !.pc = "loop"]
  /\ UNCHANGED <<crawlVars, hs, svc, wire, fetch, sql>>

\* lines 322-328: the loop test, popleft, the visited test and
\* visited_peers.add
PeerTake ==
  /\ net.pc = "loop"
  /\ net.crawler = "BitcoinPeerCrawler"
  /\ net' = IF net.peer_queue # <<>> /\ Cardinality(net.visited_peers) < net.max_peers
            THEN LET current_peer == Head(net.peer_queue)
                     popped == [net EXCEPT !.peer_queue = Tail(net.peer_queue),
                                           !.cur = current_peer]
                 IN IF current_peer \in net.visited_peers
                    THEN [popped EXCEPT !.skipped = net.skipped \cup {current_peer}]
                    ELSE [popped EXCEPT !.pc = "call",
                                        !.visited_peers =
                                            net.visited_peers \cup {current_peer}]
            ELSE [net EXCEPT !.pc = "exited"]
  /\ UNCHANGED <<crawlVars, hs, svc, wire, fetch, sql>>

\* line 334: connect_to_peer is called
PeerCall ==
  /\ net.pc = "call"
  /\ net.crawler = "BitcoinPeerCrawler"
  /\ net' = [net EXCEPT !.pc = "inflight",
                        !.attempted = net.attempted \cup {net.cur}]
  /\ UNCHANGED <<crawlVars, hs, svc, wire, fetch, sql>>

\* lines 334-343: connect_to_peer returns its peers (None is the empty list
\* here) and they are queued
PeerReturns ==
  /\ net.pc = "inflight"
  /\ net.crawler = "BitcoinPeerCrawler"
  /\ \E new_peers \in SeqsUpTo(NetNodes, MaxNetPeers) :
       net' = [PeerEnqueue(net, new_peers) EXCEPT !.pc = "loop"]
  /\ UNCHANGED <<crawlVars, hs, svc, wire, fetch, sql>>

\* crawl_bitnodes.py lines 139-143: a peer that is not in discovered is added
\* to it, and queued while visited and queue together stay below max_nodes
RECURSIVE SimpleEnqueue(_, _)
SimpleEnqueue(v, peers) ==
  IF peers = <<>> THEN v
  ELSE SimpleEnqueue(
         IF peers[1] \notin v.discovered
         THEN [v EXCEPT !.discovered = v.discovered \cup {peers[1]},
                        !.queue = IF Cardinality(v.visited) + Len(v.queue) < v.max_nodes
                                  THEN Append(v.queue, peers[1]) ELSE v.queue]
         ELSE v,
         Tail(peers))

\* lines 49-60 and 121: get_seed_nodes queues every address the DNS seeds
\* resolve to, repeated ones included
SimpleSeed ==
  /\ net.pc = "start"
  /\ net.crawler = "SimpleCrawler"
  /\ \E seeds \in SeqsUpTo(NetNodes, MaxNetSeeds) :
       net' = [net EXCEPT !.pc = "loop", !.queue = seeds,
                          !.discovered = {seeds[i] : i \in 1..Len(seeds)}]
  /\ UNCHANGED <<crawlVars, hs, svc, wire, fetch, sql>>

\* lines 125-131: the loop test, popleft, the visited test and visited.add
SimpleTake ==
  /\ net.pc = "loop"
  /\ net.crawler = "SimpleCrawler"
  /\ net' = IF net.queue # <<>> /\ Cardinality(net.visited) < net.max_nodes
            THEN LET address == Head(net.queue)
                     popped == [net EXCEPT !.queue = Tail(net.queue),
                                           !.cur = address]
                 IN IF address \in net.visited
                    THEN [popped EXCEPT !.skipped = net.skipped \cup {address}]
                    ELSE [popped EXCEPT !.pc = "call",
                                        !.visited = net.visited \cup {address}]
            ELSE [net EXCEPT !.pc = "exited"]
  /\ UNCHANGED <<crawlVars, hs, svc, wire, fetch, sql>>

\* line 134: crawl_node is called
SimpleCall ==
  /\ net.pc = "call"
  /\ net.crawler = "SimpleCrawler"
  /\ net' = [net EXCEPT !.pc = "inflight",
                        !.attempted = net.attempted \cup {net.cur}]
  /\ UNCHANGED <<crawlVars, hs, svc, wire, fetch, sql>>

\* lines 134-146: crawl_node returns its peers (the empty list after a
\* failure) and they are queued
SimpleReturns ==
  /\ net.pc = "inflight"
  /\ net.crawler = "SimpleCrawler"
  /\ \E new_peers \in SeqsUpTo(NetNodes, MaxNetPeers) :
       net' = [SimpleEnqueue(net, new_peers) EXCEPT !.pc = "loop"]
  /\ UNCHANGED <<crawlVars, hs, svc, wire, fetch, sql>>

\* the set each crawler records its attempts in
VisitedOf(v) ==
  IF v.crawler = "BitcoinPeerCrawler" THEN v.visited_peers
  ELSE IF v.crawler = "SimpleCrawler" THEN v.visited
  ELSE v.crawled

SeqNext ==
  \/ /\ net.crawler = "BitcoinCrawler"
     /\ NetNext
  \/ PeerSeed
  \/ PeerTake
  \/ PeerCall
  \/ PeerReturns
  \/ SimpleSeed
  \/ SimpleTake
  \/ SimpleCall
  \/ SimpleReturns

SpecSeq == SeqInit /\ [][SeqNext]_vars

\* ----------------------------------------------------------- fetch_bitnodes
MaxRetriesArg == 3   \* largest max_retries

RetryDelays == {1, 5}
RateLimited == 429

\* what one requests.get, raise_for_status and the processing of the body
\* can end in: a parsed result, an HTTPError with its status code, another
\* RequestException (connection error, timeout), an exception of another
\* class raised while the data is processed
AttemptOutcomes ==
  {[kind |-> "ok", status |-> 200],
   [kind |-> "HTTPError", status |-> RateLimited],
   [kind |-> "HTTPError", status |-> 500],
   [kind |-> "HTTPError", status |-> 404],
   [kind |-> "RequestException", status |-> 0],
   [kind |-> "Exception", status |-> 200]}

\* fetch_bitnodes(max_retries, retry_delay) before the loop of line 37
FetchStart(max_retries, retry_delay) ==
  [pc |-> "loop", max_retries |-> max_retries, retry_delay |-> retry_delay,
   attempt |-> 0, requests |-> 0, log |-> <<>>, sleeps |-> <<>>,
   wait_time |-> 0, result |-> "none"]

FetchInit ==
  /\ CrawlIdle /\ hs = HsIdle /\ svc = SvcIdle /\ wire = WireIdle /\ net = NetIdle
  /\ fetch \in {FetchStart(m, d) : m \in 0..MaxRetriesArg, d \in RetryDelays}
  /\ sql = SqlIdle

\* the retry test with a fault: the final attempt is followed by a sleep too
MayRetryAlways(attempt, max_retries) == TRUE

\* lines 94 and 104: if attempt < max_retries - 1
MayRetry(attempt, max_retries) == attempt < max_retries - 1

\* line 92: wait_time = retry_delay * (2 ** attempt)
RateLimitWait(retry_delay, attempt) == retry_delay * (2 ^ attempt)

\* line 106: time.sleep(retry_delay)
NetworkWait(retry_delay, attempt) == retry_delay

\* lines 37-112: one pass of the loop up to its return or its sleep; log
\* records the outcome of every request
FetchAttempt ==
  /\ fetch.pc = "loop"
  /\ fetch.attempt < fetch.max_retries
  /\ \E o \in AttemptOutcomes :
       LET f == [fetch EXCEPT !.requests = fetch.requests + 1,
                              !.log = Append(fetch.log, o)]
           retry == MayRetry(fetch.attempt, fetch.max_retries)
       IN fetch' =
            IF o.kind = "ok"
            THEN [f EXCEPT !.pc = "returned", !.result = "data"]
            ELSE IF o.kind = "HTTPError" /\ o.status = RateLimited
            THEN IF retry
                 THEN [f EXCEPT !.pc = "sleep",
                                !.wait_time = RateLimitWait(fetch.retry_delay,
                                                            fetch.attempt)]
                 ELSE [f EXCEPT !.pc = "returned", !.result = "None"]
            ELSE IF o.kind = "HTTPError"
            THEN [f EXCEPT !.pc = "returned", !.result = "None"]
            ELSE IF o.kind = "RequestException"
            THEN IF retry
                 THEN [f EXCEPT !.pc = "sleep",
                                !.wait_time = NetworkWait(fetch.retry_delay,
                                                          fetch.attempt)]
                 ELSE [f EXCEPT !.pc = "returned", !.result = "None"]
            ELSE [f EXCEPT !.pc = "returned", !.result = "None"]
  /\ UNCHANGED <<crawlVars, hs, svc, wire, net, sql>>

\* lines 96-97 and 106-107: time.sleep returns and the loop continues;
\* sleeps records the attempt each sleep followed and its length
FetchSleepEnds ==
  /\ fetch.pc = "sleep"
  /\ fetch' = [fetch EXCEPT !.pc = "loop",
                            !.attempt = fetch.attempt + 1,
                            !.sleeps = Append(fetch.sleeps,
                                              [after |-> fetch.attempt,
                                               wait |-> fetch.wait_time])]
  /\ UNCHANGED <<crawlVars, hs, svc, wire, net, sql>>

\* line 114: the loop ran out of passes
FetchExhausted ==
  /\ fetch.pc = "loop"
  /\ ~(fetch.attempt < fetch.max_retries)
  /\ fetch' = [fetch EXCEPT !.pc = "returned", !.result = "None"]
  /\ UNCHANGED <<crawlVars, hs, svc, wire, net, sql>>

FetchNext ==
  \/ FetchAttempt
  \/ FetchSleepEnds
  \/ FetchExhausted

SpecFetch == FetchInit /\ [][FetchNext]_vars

\* ------------------------------------------- a crawl on a store in use
\* crawl() never clears the Redis database it connects to (crawler.py:545):
\* what an earlier run can have left there about a host is nothing, a record
\* in the uncontacted set, or a record marked contacted with a successful or
\* a failed handshake
EarlierStates ==
  {NoPeer,
   [port |-> DefaultPort, contacted |-> "0", success |-> "0"],
   [port |-> DefaultPort, contacted |-> "1", success |-> "1"],
   [port |-> DefaultPort, contacted |-> "1", success |-> "0"]}

\* the store holding the records left of the hosts in IPs
ResumeDB(left) ==
  LET known == {ip \in IPs : left[ip] # NoPeer}
  IN [peer |-> [ip \in AllIPs |-> IF ip \in IPs THEN left[ip] ELSE NoPeer],
      uncontacted |-> {ip \in known : left[ip].contacted = "0"},
      contacted |-> {ip \in known : left[ip].contacted = "1"},
      successful |-> {ip \in known : left[ip].success = "1"},
      all |-> known]

\* a new crawler process (empty visited, zero counters) on that store
ResumeInit ==
  /\ config \in Configs
  /\ \E left \in [IPs -> EarlierStates] : db = ResumeDB(left)
  /\ visited = {}
  /\ stats = NewStats
  /\ pc = "init"
  /\ iteration = Unbound
  /\ peers_to_process = <<>>
  /\ results = <<>>
  /\ final_stats = NoSummary
  /\ dispatched = [a \in AllAddr |-> 0]
  /\ totalAtDispatch = <<>>
  /\ frontierAtDispatch = <<>>
  /\ lastBatch = NoBatch
  /\ hs = HsIdle
  /\ svc = SvcIdle
  /\ wire = WireIdle
  /\ net = NetIdle
  /\ fetch = FetchIdle /\ sql = SqlIdle

SpecResume == ResumeInit /\ [][Next]_vars

\* ------------------------------------------------- one client of the store
\* save_peer with a fault: an address saved as not contacted joins the
\* uncontacted set whether or not its key exists
save_peer_readd(d, ip, port, contacted, successful) ==
  LET old == d.peer[ip]
      rec == [port |-> port,
              contacted |-> IF contacted THEN "1" ELSE old.contacted,
              success |-> IF successful THEN "1" ELSE old.success]
  IN [peer |-> [d.peer EXCEPT ![ip] = rec],
      uncontacted |-> IF contacted THEN d.uncontacted \ {ip}
                      ELSE d.uncontacted \cup {ip},
      contacted |-> IF contacted THEN d.contacted \cup {ip} ELSE d.contacted,
      successful |-> IF successful THEN d.successful \cup {ip} ELSE d.successful,
      all |-> d.all \cup {ip}]

\* BitcoinNodesDB.save_peer: the existence test (line 161), the sadd for a new
\* uncontacted peer (169-173), the hset of ip, port and last_seen (185), which
\* leaves the fields it does not name as they are, the sadd to the set of all
\* peers (188) and the status updates (191-198)
save_peer(d, ip, port, contacted, successful) ==
  LET was == exists(d, ip)
      old == d.peer[ip]
      rec == [port |-> port,
              contacted |-> IF contacted THEN "1" ELSE old.contacted,
              success |-> IF successful THEN "1" ELSE old.success]
      added == IF ~was /\ ~contacted THEN d.uncontacted \cup {ip}
               ELSE d.uncontacted
  IN [peer |-> [d.peer EXCEPT ![ip] = rec],
      uncontacted |-> IF contacted THEN added \ {ip} ELSE added,
      contacted |-> IF contacted THEN d.contacted \cup {ip} ELSE d.contacted,
      successful |-> IF successful THEN d.successful \cup {ip} ELSE d.successful,
      all |-> d.all \cup {ip}]

MaxStoreBatch == 2   \* longest list passed to save_peers_batch

\* the addresses the client passes: host 1 on two ports, and host 2
StoreAddr == {<<1, DefaultPort>>, <<1, AltPort>>, <<2, DefaultPort>>}

\* a client holding a connection to an empty database; pc names the call the
\* client made last and peers_to_process the addresses it passed
StoreInit ==
  /\ config = [target_peers |-> 1, concurrency |-> 1, max_iterations |-> 1]
  /\ db = EmptyDB
  /\ visited = {}
  /\ stats = NewStats
  /\ pc = "connected"
  /\ iteration = Unbound
  /\ peers_to_process = <<>>
  /\ results = <<>>
  /\ final_stats = NoSummary
  /\ dispatched = [a \in AllAddr |-> 0]
  /\ totalAtDispatch = <<>>
  /\ frontierAtDispatch = <<>>
  /\ lastBatch = NoBatch
  /\ hs = HsIdle
  /\ svc = SvcIdle
  /\ wire = WireIdle
  /\ net = NetIdle
  /\ fetch = FetchIdle /\ sql = SqlIdle

\* the client calls save_peer
StoreSavePeer ==
  \E a \in StoreAddr, contacted \in BOOLEAN, successful \in BOOLEAN :
    /\ db' = save_peer(db, a[1], a[2], contacted, successful)
    /\ pc' = "save_peer"
    /\ peers_to_process' = <<a>>
    /\ UNCHANGED <<config, visited, stats, iteration, results, final_stats,
                   dispatched, totalAtDispatch, frontierAtDispatch, lastBatch,
                   hs, svc, wire, net, fetch, sql>>

\* the client calls save_peers_batch
StoreSavePeersBatch ==
  \E peers \in SeqsUpTo(StoreAddr, MaxStoreBatch) :
    /\ db' = save_peers_batch(db, peers)
    /\ pc' = "save_peers_batch"
    /\ peers_to_process' = peers
    /\ UNCHANGED <<config, visited, stats, iteration, results, final_stats,
                   dispatched, totalAtDispatch, frontierAtDispatch, lastBatch,
                   hs, svc, wire, net, fetch, sql>>

\* the client calls mark_peer_contacted
StoreMarkPeerContacted ==
  \E a \in StoreAddr, success \in BOOLEAN :
    /\ db' = mark_peer_contacted(db, a[1], a[2], success)
    /\ pc' = "mark_peer_contacted"
    /\ peers_to_process' = <<a>>
    /\ UNCHANGED <<config, visited, stats, iteration, results, final_stats,
                   dispatched, totalAtDispatch, frontierAtDispatch, lastBatch,
                   hs, svc, wire, net, fetch, sql>>

StoreNext ==
  \/ StoreSavePeer
  \/ StoreSavePeersBatch
  \/ StoreMarkPeerContacted

SpecStore == StoreInit /\ [][StoreNext]_vars

\* ----------------------------------------------------------- PeersDatabase
MaxSaves == 3        \* snapshots that are ever given an id
MaxTicks == 2        \* seconds of CURRENT_TIMESTAMP that pass
MaxKeep == 2         \* largest keep_latest

\* peer.get('ip') of a peer dict that has no 'ip': None
NoIp == 0

\* the 'peers' lists of the data passed to save_snapshot; the column ip is
\* NOT NULL (line 66), so a peer without 'ip' cannot be inserted
SnapshotInputs == {<<>>, <<1>>, <<2, 1>>, <<1, NoIp>>, <<NoIp>>}

\* sqlite3.OperationalError (database locked, disk full): not raised, raised
\* by the first execute, or raised by commit
SqlFaults == {"none", "execute", "commit"}

\* _init_db: both tables empty. peers rows are grouped by their snapshot_id,
\* in insertion order; seq is the AUTOINCREMENT sequence of snapshots.id
EmptyTables == [snapshots |-> {},
                peers |-> [sid \in 1..MaxSaves |-> <<>>],
                seq |-> 0]

NoReturn == [kind |-> "none", id |-> 0, peers |-> <<>>]
RaisedReturn == [kind |-> "raised", id |-> 0, peers |-> <<>>]

\* PeersDatabase.__init__: the file is created; op, data, keep and ret are the
\* client's last call, its arguments and its outcome; lastSaved and lastData
\* are the id and the peers of the last save_snapshot that returned
SqlStart == [pc |-> "open", tables |-> EmptyTables, now |-> 1,
             op |-> "init", data |-> <<>>, keep |-> 0, ret |-> NoReturn,
             lastSaved |-> 0, lastData |-> <<>>]

SqlInit ==
  /\ CrawlIdle /\ hs = HsIdle /\ svc = SvcIdle /\ wire = WireIdle /\ net = NetIdle
  /\ fetch = FetchIdle
  /\ sql = SqlStart

\* INSERT INTO snapshots (lines 117-126): id from the AUTOINCREMENT sequence,
\* created_at DEFAULT CURRENT_TIMESTAMP
insert_snapshot(t, now) ==
  [t EXCEPT !.seq = t.seq + 1,
            !.snapshots = t.snapshots \cup {[id |-> t.seq + 1, created_at |-> now]}]

\* lines 131-157: one INSERT per peer; the INSERT of a peer without ip raises
\* sqlite3.IntegrityError and ends the loop
RECURSIVE insert_peers(_, _, _, _)
insert_peers(t, sid, peers, i) ==
  IF i > Len(peers)
  THEN [tables |-> t, raised |-> FALSE]
  ELSE IF peers[i] = NoIp
       THEN [tables |-> t, raised |-> TRUE]
       ELSE insert_peers([t EXCEPT !.peers[sid] = Append(@, peers[i])],
                         sid, peers, i + 1)

\* rollback with a fault: the statements executed so far stay in the file
rollback_keep(committed, working) == working

\* conn.rollback() (line 39): the file is as it was when the transaction began
rollback(committed, working) == committed

\* _get_connection: commit after the body, rollback and re-raise if the body
\* or the commit raised
get_connection(committed, body, fault) ==
  IF body.raised \/ fault = "commit"
  THEN [tables |-> rollback(committed, body.tables), raised |-> TRUE]
  ELSE [tables |-> body.tables, raised |-> FALSE]

\* save_snapshot: the snapshot row, then its peers, in one transaction
save_snapshot(t, now, peers, fault) ==
  get_connection(t,
                 IF fault = "execute"
                 THEN [tables |-> t, raised |-> TRUE]
                 ELSE insert_peers(insert_snapshot(t, now), t.seq + 1, peers, 1),
                 fault)

\* ORDER BY ip (line 189)
RECURSIVE SortByIp(_)
SortByIp(s) ==
  IF s = <<>> THEN <<>>
  ELSE LET m == CHOOSE i \in 1..Len(s) : \A j \in 1..Len(s) : s[i] <= s[j]
       IN <<s[m]>> \o SortByIp([k \in 1..(Len(s) - 1) |-> IF k < m THEN s[k] ELSE s[k + 1]])

\* ORDER BY created_at DESC: every order of the rows in which created_at does
\* not increase; SQL leaves the order of rows with equal keys open
ByCreatedAtDesc(rows) ==
  {o \in InjSeqs(rows, Cardinality(rows)) :
     \A i, j \in 1..Len(o) : i < j => o[i].created_at >= o[j].created_at}

\* get_latest_snapshot: the values it can return
get_latest_snapshot(t) ==
  IF t.snapshots = {}
  THEN {NoReturn}
  ELSE {[kind |-> "snapshot", id |-> o[1].id, peers |-> SortByIp(t.peers[o[1].id])]
          : o \in ByCreatedAtDesc(t.snapshots)}

\* delete_old_snapshots: the tables it can leave; old_ids are the rows after
\* the first keep_latest of the order (LIMIT -1 OFFSET ?)
delete_old_snapshots(t, keep_latest) ==
  {LET old_ids == {o[i].id : i \in {k \in 1..Len(o) : k > keep_latest}}
   IN [t EXCEPT !.peers = [sid \in 1..MaxSaves |->
                             IF sid \in old_ids THEN <<>> ELSE t.peers[sid]],
                !.snapshots = {r \in t.snapshots : r.id \notin old_ids}]
     : o \in ByCreatedAtDesc(t.snapshots)}

\* the client calls save_snapshot
SqlSaveSnapshot ==
  \E peers \in SnapshotInputs, fault \in SqlFaults :
    /\ sql.pc = "open"
    /\ sql.tables.seq < MaxSaves
    /\ LET r == save_snapshot(sql.tables, sql.now, peers, fault)
       IN sql' = [sql EXCEPT
                    !.tables = r.tables,
                    !.op = "save_snapshot",
                    !.data = peers,
                    !.ret = IF r.raised THEN RaisedReturn
                            ELSE [kind |-> "id", id |-> r.tables.seq, peers |-> <<>>],
                    !.lastSaved = IF r.raised THEN @ ELSE r.tables.seq,
                    !.lastData = IF r.raised THEN @ ELSE peers]
    /\ UNCHANGED <<crawlVars, hs, svc, wire, net, fetch>>

\* the client calls get_latest_snapshot
SqlGetLatestSnapshot ==
  \E r \in get_latest_snapshot(sql.tables) :
    /\ sql.pc = "open"
    /\ sql' = [sql EXCEPT !.op = "get_latest_snapshot", !.ret = r]
    /\ UNCHANGED <<crawlVars, hs, svc, wire, net, fetch>>

\* the client calls delete_old_snapshots
SqlDeleteOldSnapshots ==
  \E keep_latest \in 1..MaxKeep :
    \E t \in delete_old_snapshots(sql.tables, keep_latest) :
      /\ sql.pc = "open"
      /\ sql' = [sql EXCEPT !.tables = t,
                            !.op = "delete_old_snapshots",
                            !.keep = keep_latest,
                            !.ret = NoReturn]
      /\ UNCHANGED <<crawlVars, hs, svc, wire, net, fetch>>

\* a second of CURRENT_TIMESTAMP passes
SqlTick ==
  /\ sql.pc = "open"
  /\ sql.now < MaxTicks
  /\ sql' = [sql EXCEPT !.now = sql.now + 1]
  /\ UNCHANGED <<crawlVars, hs, svc, wire, net, fetch>>

SqlNext ==
  \/ SqlSaveSnapshot
  \/ SqlGetLatestSnapshot
  \/ SqlDeleteOldSnapshots
  \/ SqlTick

SpecSql == SqlInit /\ [][SqlNext]_vars

\* ------------------------------------------------------------- the claims
Inflight == {i \in 1..Len(results) : results[i] = Pending}

\* C1: no address is handed to a worker more than once in a run, neither in
\* two batches nor twice in one batch; a failed address is not retried.
NoAddressDispatchedTwice == \A a \in AllAddr : dispatched[a] <= 1

\* C1 witness: in a second or later batch a worker reports an address whose
\* contact failed in an earlier batch.
FailedAddressReportedAgain ==
  /\ pc = "gather"
  /\ Len(totalAtDispatch) >= 2
  /\ \E i \in 1..Len(results) :
       /\ results[i].kind = "ok"
       /\ \E j \in 1..Len(results[i].peers) :
            /\ results[i].peers[j][1] \in db.contacted \ db.successful
            /\ dispatched[results[i].peers[j]] = 1

\* C2: the workers started and not yet returned never outnumber
\* config.concurrency.
InflightWithinConcurrency == Cardinality(Inflight) <= config.concurrency

\* C2 witness: a full batch is in flight while the uncontacted set holds
\* more addresses than the limit.
FullBatchInflight ==
  /\ pc = "gather"
  /\ Cardinality(Inflight) = config.concurrency
  /\ Cardinality(db.uncontacted) > config.concurrency

BatchesWithinBudget ==
  /\ Len(totalAtDispatch) <= config.max_iterations
  /\ \A i \in 1..Len(frontierAtDispatch) : frontierAtDispatch[i] > 0

\* C5 witness: the crawl ended with the budget used up and addresses left.
BudgetExhausted ==
  /\ pc = "done"
  /\ config.max_iterations >= 1
  /\ Len(totalAtDispatch) = config.max_iterations
  /\ db.uncontacted # {}

\* C6 as stated: no unhandled failure ends the crawl.
CrawlNeverRaises == pc # "raised"

\* C7: a batch with k failing workers (failed results or exceptions) and m
\* succeeding ones adds exactly k to failed_connections and m to
\* successful_handshakes, and no exception leaves a batch: the crawl raises
\* only before its first batch.
BatchCountsExact ==
  /\ lastBatch.failedAfter = lastBatch.failedBefore + lastBatch.fail + lastBatch.exc
  /\ lastBatch.succAfter = lastBatch.succBefore + lastBatch.ok
  /\ pc = "raised" => Len(totalAtDispatch) = 0
  /\ pc = "loop" /\ Len(totalAtDispatch) > 0 =>
        /\ stats.failed_connections = lastBatch.failedAfter
        /\ stats.successful_handshakes = lastBatch.succAfter
        /\ Len(stats.peers_per_iteration) = Len(totalAtDispatch)

\* C7 witness: a completed batch in which one worker failed and another
\* succeeded.
MixedBatchCompleted ==
  /\ pc = "loop"
  /\ lastBatch.ok >= 1
  /\ lastBatch.fail >= 1

\* C4: no batch is dispatched at a boundary where the store's total has
\* reached target_peers; with 3 seeds, target 5 and concurrency 10 the crawl
\* runs one batch and reports iterations_completed <= 2.
HaltsAtTarget ==
  /\ \A i \in 1..Len(totalAtDispatch) : totalAtDispatch[i] < config.target_peers
  /\ ( /\ pc = "done"
       /\ config.target_peers = 5
       /\ config.concurrency = 10
       /\ Len(totalAtDispatch) >= 1
       /\ totalAtDispatch[1] = 3 )
     => /\ final_stats.iterations_completed <= 2
        /\ Len(totalAtDispatch) <= 1

\* C4 witness: the scenario ran: 3 seeds, one batch of 3 workers, 9
\* addresses known, the second boundary stopped the crawl.
ScenarioHalted ==
  /\ pc = "done"
  /\ config.target_peers = 5
  /\ config.concurrency = 10
  /\ totalAtDispatch = <<3>>
  /\ Cardinality(db.all) = 9
  /\ final_stats.iterations_completed = 2

\* C8: past the handshake loop the session is READY exactly if a version
\* frame and a verack frame were both read within the 10 passes, in either
\* order and whatever else was read.
ReadyIffVersionAndVerack ==
  /\ hs.i <= HandshakeBudget
  /\ hs.ready => {"version", "verack"} \subseteq hs.frames
  /\ ( /\ hs.pc \in {"addr", "close", "returned"}
       /\ {"version", "verack"} \subseteq hs.frames ) => hs.ready

\* C8 witness: READY after the verack arrived before the version, with
\* another message read in between.
ReadyVerackFirst ==
  /\ hs.ready
  /\ hs.first = "verack"
  /\ "ping" \in hs.frames

\* C10: a connect timeout, a read timeout, a foreign magic, a declared
\* length above 5,000,000 or a used-up budget during the handshake phase
\* ends in success=False, and the payload behind a rejected header is never
\* read.
HandshakeFailureFails ==
  /\ hs.result = "ok" => hs.events = {}
  /\ hs.pc = "returned" /\ hs.events # {} => hs.result = "fail"
  /\ ~hs.rejectedPayloadRead

\* C10 witness: the session failed on an oversized header that followed the
\* peer's version.
FailedOnOversizedHeader ==
  /\ hs.pc = "returned"
  /\ hs.result = "fail"
  /\ "oversized" \in hs.events
  /\ hs.received_version

\* C9 as stated: on one connection, of handshake_and_get_peers and of
\* connect_and_crawl alike, getaddr is sent only after the peer's version
\* and verack were received, at most once, and an addr message is accepted
\* only after getaddr was sent.
GetaddrAfterHandshakeAddrAfterGetaddr ==
  /\ hs.getaddr <= 1
  /\ hs.getaddr >= 1 => {"version", "verack"} \subseteq hs.frames
  /\ hs.addrAccepted >= 1 => hs.getaddr >= 1
  /\ svc.getaddr <= 1
  /\ svc.getaddr >= 1 =>
       \E m, n \in 1..Len(svc.log) : svc.log[m] = "version" /\ svc.log[n] = "verack"
  /\ svc.addr_received => svc.getaddr >= 1

\* C11 as stated: a connection that handshake_and_get_peers opened is closed
\* when the function has returned, whatever path it returned by.
ConnectionClosedOnReturn == hs.pc = "returned" => ~hs.open

\* C12 as stated: once both version and verack were received, the function
\* returns success=True, whatever happens during the address exchange.
ReadyReturnsSuccess == hs.pc = "returned" /\ hs.ready => hs.result = "ok"

\* the width (tag included) the first byte of a varint declares
DeclaredWidth(tag) ==
  IF tag < 253 THEN 1 ELSE IF tag = 253 THEN 3 ELSE IF tag = 254 THEN 5 ELSE 9

\* C15: decoding the encoding of n at offset 0 returns n and the encoding's
\* length; the encoding is 1 byte below 0xfd, 3 bytes up to 0xffff, 5 bytes
\* up to 0xffffffff and 9 bytes above, led by 0xfd/0xfe/0xff and
\* little-endian.
VarintRoundTrip ==
  wire.pc = "decoded" =>
    LET n == wire.n
        enc == wire.enc
        len == IF n[2] = 0 /\ n[3] = 0 /\ n[4] = 0
               THEN (IF n[1] < 253 THEN 1 ELSE 3)
               ELSE IF n[3] = 0 /\ n[4] = 0 THEN 5 ELSE 9
    IN /\ wire.dec = [raised |-> FALSE, value |-> n, offset |-> Len(enc)]
       /\ Len(enc) = len
       /\ len = 1 => enc = <<n[1]>>
       /\ len > 1 =>
            /\ enc[1] = (IF len = 3 THEN 253 ELSE IF len = 5 THEN 254 ELSE 255)
            /\ \A j \in 1..4 :
                 IF 2 * j < len
                 THEN enc[2 * j] + 256 * enc[2 * j + 1] = n[j]
                 ELSE n[j] = 0

\* C15 witness: 0x100000000 went through encode_varint and decode_varint.
RoundTripAbove32Bits ==
  /\ wire.pc = "decoded"
  /\ wire.n = <<0, 0, 1, 0>>
  /\ Len(wire.enc) = 9

\* C16 as stated: a buffer that ends before the width its tag byte declares
\* makes decode_varint report a failure.
TruncatedVarintFails ==
  ( /\ wire.pc = "read"
    /\ wire.offset < Len(wire.data)
    /\ Len(wire.data) - wire.offset < DeclaredWidth(wire.data[wire.offset + 1]) )
  => wire.dec.raised

\* the address ranges the specification excludes, as prefixes: 10/8,
\* 172.16/12, 192.168/16, 127/8, 0/8, and 224.0.0.0 and above
InExcludedRange(ip) ==
  \/ ip[1] = 10
  \/ ip[1] = 172 /\ ip[2] \div 16 = 1
  \/ ip[1] = 192 /\ ip[2] = 168
  \/ ip[1] = 127
  \/ ip[1] = 0
  \/ ip[1] \div 32 = 7

\* the addresses of the records r that are IPv4-mapped and outside the
\* excluded ranges, in order
AddressesOf(recs) ==
  LET kept == SelectSeq(recs, LAMBDA r : r.prefix = "mapped" /\ ~InExcludedRange(r.ip))
  IN [i \in 1..Len(kept) |-> <<kept[i].ip, kept[i].port>>]

\* C13: a payload of one 30-byte record yields that record's (IPv4, port)
\* exactly if its address field has the IPv4-mapped prefix and the IPv4 is
\* outside the excluded ranges; the port is the big-endian value of the
\* record's last two bytes.
RecordReturnedIffPublicMapped ==
  ( /\ wire.pc = "done"
    /\ wire.in.declared = 1
    /\ Len(wire.in.recs) = 1
    /\ wire.in.tail = 0 )
  => LET r == wire.in.recs[1] IN
     /\ (wire.peers # <<>>) <=> (r.prefix = "mapped" /\ ~InExcludedRange(r.ip))
     /\ wire.peers # <<>> => wire.peers = <<<<r.ip, r.port>>>>
     /\ (r.ip = <<10, 0, 0, 5>> /\ r.port = 8333) => wire.peers = <<>>
     /\ (r.prefix = "mapped" /\ r.ip = <<203, 0, 113, 5>> /\ r.port = 8333)
          => wire.peers = <<<<<<203, 0, 113, 5>>, 8333>>>>

\* C13 witness: the record of 172.31.255.255 was parsed and dropped.
PrivateRecordDropped ==
  /\ wire.pc = "done"
  /\ wire.in.declared = 1
  /\ wire.in.recs = <<[prefix |-> "mapped", ip |-> <<172, 31, 255, 255>>, port |-> 8333]>>
  /\ wire.k = 1
  /\ wire.peers = <<>>

\* C14: parse_addr_payload decodes at most min(count, 1000) records, reads
\* no field of a record that is not wholly inside the payload, and returns
\* the addresses of the complete records present, in order, up to that limit.
DecodesCompleteRecordsUpToCeiling ==
  /\ ~wire.partialRead
  /\ wire.in.declared >= 0 => wire.k <= Min(wire.in.declared, 1000)
  /\ wire.in.declared < 0 => wire.k = 0
  /\ wire.offset <= Len(wire.payload)
  /\ wire.pc = "done" =>
       LET limit == IF wire.in.declared < 0 THEN 0 ELSE Min(wire.in.declared, 1000)
           n == Min(limit, Len(wire.in.recs))
       IN /\ wire.k = n
          /\ wire.peers = AddressesOf(SubSeq(wire.in.recs, 1, n))

\* C14 witness: a payload declaring 3 records and holding 2 and a cut-off
\* third was parsed.
ShortPayloadParsed ==
  /\ wire.pc = "done"
  /\ wire.in.declared = 3
  /\ Len(wire.in.recs) = 2
  /\ wire.in.tail = 29
  /\ Len(wire.peers) = 2

\* C17 as stated: a frame whose checksum field differs from the double hash
\* of its payload is rejected: it never counts as version or verack, and the
\* addresses of such an addr frame are not taken into the returned list.
ChecksumMismatchRejected == ~hs.mismatchUsed

\* C18 as stated: addresses are told apart by host and port: when a batch
\* has been processed, every address a successful worker returned has a
\* record of its own in the store, with its own port, whatever other port of
\* the same host is already known.
DiscoveredAddressHasOwnRecord ==
  [][ (pc = "gather" /\ pc' = "loop") =>
        \A i \in 1..Len(results) :
           results[i].kind = "ok" =>
             \A j \in 1..Len(results[i].peers) :
                db'.peer[results[i].peers[j][1]].port = results[i].peers[j][2] ]_vars

\* C19 as stated: every worker eventually returns, whatever the peer does,
\* because every suspension point of handshake_and_get_peers is bounded by a
\* timeout.
WorkerEventuallyReturns == <>(hs.pc = "returned")

\* C20 as stated: once stop_event is set, an attempt in flight is left to
\* finish, and when crawl_network is left every address that was dequeued is
\* in crawled.
StopLeavesCrawlIntact ==
  /\ ~net.aborted
  /\ net.pc \in {"exited", "killed"} => net.taken \subseteq net.crawled

\* C21: the Visited set, the store and the CrawlStats counters change only in
\* steps of the crawl loop taken while no worker is in flight; a step in
\* which a worker returns, and every step of handshake_and_get_peers, leaves
\* them as they are.
WorkersLeaveCrawlStateAlone ==
  [][ /\ (db' # db \/ visited' # visited \/ stats' # stats) => Inflight = {}
      /\ results' # results /\ pc = "gather" /\ pc' = "gather" =>
           db' = db /\ visited' = visited /\ stats' = stats
      /\ hs' # hs => db' = db /\ visited' = visited /\ stats' = stats ]_vars

\* C21 witness: one worker of a batch has returned addresses while another
\* is still in flight, with addresses waiting in the store.
WorkerReturnedWhileOtherInflight ==
  /\ pc = "gather"
  /\ Inflight # {}
  /\ \E i \in 1..Len(results) : results[i].kind = "ok" /\ results[i].peers # <<>>
  /\ db.uncontacted # {}

\* C22: in the discovery step of crawl() a returned address enters the
\* Frontier only if its host was in neither Visited nor the Frontier and had
\* no record in the store, and some worker of the batch returned it; records
\* of hosts outside the batch are left as they were; in every state the
\* Frontier is the set of the hosts whose one record is uncontacted, so it
\* lists each address once and holds no contacted host.
FrontierInsertsOnlyUnknown ==
  /\ [](db.uncontacted \cap db.contacted = {})
  /\ [](db.uncontacted =
          {ip \in AllIPs : exists(db, ip) /\ db.peer[ip].contacted = "0"})
  /\ [][pc = "gather" /\ pc' = "loop" =>
          /\ \A ip \in db'.uncontacted \ db.uncontacted :
                /\ ip \notin visited
                /\ ip \notin db.contacted
                /\ ~exists(db, ip)
                /\ \E i \in 1..Len(results) :
                      /\ results[i].kind = "ok"
                      /\ \E j \in 1..Len(results[i].peers) :
                            results[i].peers[j][1] = ip
          /\ \A ip \in AllIPs :
                /\ exists(db, ip)
                /\ \A i \in 1..Len(peers_to_process) : peers_to_process[i][1] # ip
                => db'.peer[ip] = db.peer[ip]
          /\ db.contacted \subseteq db'.contacted ]_vars

\* two workers of one batch returned the same unknown host: one new record,
\* two entries counted
SameAddressFromTwoWorkers ==
  /\ pc = "loop"
  /\ lastBatch.ok = 2
  /\ stats.peers_per_iteration = <<2>>
  /\ Cardinality(db.all \cap IPs) = 1
  /\ Cardinality(db.all) = totalAtDispatch[1] + 1
  /\ db.all \cap IPs \subseteq db.uncontacted

\* C23: when crawl() has processed a batch, every address dispatched in it is
\* marked contacted in the store and is out of the Frontier, and its stored
\* handshake-success flag is the outcome of the worker at the same position
\* of the batch: set for a successful result, cleared for a failed result and
\* for an exception.
BatchMarkedWithOwnOutcome ==
  [][pc = "gather" /\ pc' = "loop" =>
       /\ Len(results) = Len(peers_to_process)
       /\ \A i \in 1..Len(peers_to_process) :
            LET ip == peers_to_process[i][1]
            IN /\ ip \in db'.contacted
               /\ ip \notin db'.uncontacted
               /\ db'.peer[ip].contacted = "1"
               /\ db'.peer[ip].port = peers_to_process[i][2]
               /\ db'.peer[ip].success = "1" <=> results[i].kind = "ok"
               /\ ip \in db'.successful <=> results[i].kind = "ok" ]_vars

\* a batch of two was processed whose first worker raised an exception and
\* whose second worker succeeded
ExceptionThenSuccessMarked ==
  /\ pc = "loop"
  /\ lastBatch.n = 2
  /\ lastBatch.exc = 1
  /\ lastBatch.ok = 1
  /\ {NumIPs + 1, NumIPs + 2} \subseteq db.contacted
  /\ db.peer[NumIPs + 1].success = "0"
  /\ db.peer[NumIPs + 2].success = "1"

\* C24: while a services connection is alive, once the peer's version and the
\* peer's verack have both arrived, in either order, getaddr has been sent.
GetaddrSentOnceBothArrived ==
  /\ svc.pc = "loop"
  /\ \E i \in 1..Len(svc.log) : svc.log[i] = "version"
  /\ \E i \in 1..Len(svc.log) : svc.log[i] = "verack"
  => svc.getaddr >= 1

\* C25: a services connection that completed the version/verack handshake
\* and ended at recv without an addr message returns success with an empty
\* peer list.
HandshakeWithoutAddrIsSuccess ==
  /\ svc.pc = "returned"
  /\ svc.end = "recv"
  /\ svc.version_received
  /\ svc.verack_received
  /\ ~svc.addr_received
  => svc.result = "ok" /\ svc.peers = <<>>

\* the (IPv4, port) pairs of the records whose address field is IPv4-mapped
MappedOf(recs) ==
  LET kept == SelectSeq(recs, LAMBDA r : r.prefix = "mapped")
  IN [i \in 1..Len(kept) |-> <<kept[i].ip, kept[i].port>>]

\* C26: for a payload of a count followed by that many complete records (at
\* most 1000), parse_addr_message of the services crawler ends without
\* raising and has returned exactly the IPv4 and the port of every record
\* whose address field is IPv4-mapped, in payload order.
SvcReturnsEveryMappedRecord ==
  /\ wire.pc \in {"done", "raised"}
  /\ wire.in.declared = Len(wire.in.recs)
  => /\ wire.pc = "done"
     /\ wire.addresses = MappedOf(wire.in.recs)

\* the buffer handed to parse_message must be refused: it is shorter than a
\* header, its magic differs, fewer than 24 + declared-length bytes are
\* present, or its checksum field differs from the digest of its payload
MustBeRefused(data) ==
  \/ Len(data) < HeaderSize
  \/ Slice(data, 0, 4) # MAGIC_BYTES
  \/ Incomplete(data, unpack_le(Slice(data, 16, 20)))
  \/ Slice(data, 20, 24) #
       sha256d4(Slice(data, HeaderSize, HeaderSize + unpack_le(Slice(data, 16, 20))[1]))

EndsWithNul(command) == command # <<>> /\ command[Len(command)] = 0

\* C27 as stated: parse_message(create_message(command, payload)) returns
\* the command and the payload for every command of at most 12 ASCII bytes,
\* and parse_message returns None for every buffer that must be refused.
RoundTripEveryCommand ==
  wire.pc = "done" =>
    /\ wire.tamper = "none" /\ Len(wire.command) <= CommandSize =>
         wire.msg = Message(wire.command, wire.payload)
    /\ MustBeRefused(wire.data) => wire.msg = None

\* C27 amended: the round trip returns the command and the payload for every
\* command of at most 12 ASCII bytes that does not end with a zero byte, and
\* parse_message returns None for every buffer that must be refused.
RoundTripUnpaddedCommand ==
  wire.pc = "done" =>
    /\ /\ wire.tamper = "none"
       /\ Len(wire.command) <= CommandSize
       /\ ~EndsWithNul(wire.command)
       => wire.msg = Message(wire.command, wire.payload)
    /\ MustBeRefused(wire.data) => wire.msg = None

\* a 12-byte command with a payload came back from the round trip
FullWidthCommandRoundTripped ==
  /\ wire.pc = "done"
  /\ wire.tamper = "none"
  /\ Len(wire.command) = CommandSize
  /\ wire.payload # <<>>
  /\ wire.msg = Message(wire.command, wire.payload)

\* C28: in each sequential crawler a network attempt starts only for an
\* address that is already in the crawler's visited/crawled set and for which
\* no attempt was started before in the run.
AttemptOnceAfterMarking ==
  [][net.pc # "inflight" /\ net'.pc = "inflight" =>
       /\ net.cur \in VisitedOf(net)
       /\ net.cur \notin net.attempted
       /\ net'.attempted = net.attempted \cup {net.cur}]_vars

\* SimpleCrawler, seeded with the same address twice, contacted it once and
\* skipped it when it was dequeued the second time
DuplicateSeedSkipped ==
  /\ net.crawler = "SimpleCrawler"
  /\ net.pc = "loop"
  /\ net.skipped # {}
  /\ net.attempted = net.skipped
  /\ net.cur \in net.visited

\* the attempt whose outcome is o may be followed by another one
Retried(o) ==
  \/ o.kind = "HTTPError" /\ o.status = RateLimited
  \/ o.kind = "RequestException"

\* C29: fetch_bitnodes sends at most max_retries requests; every request
\* but the last ended in a failure that is retried; it returns the parsed
\* result exactly when its last request succeeded, and None after a non-429
\* HTTP error, after a processing error and after max_retries failed
\* attempts; it sleeps only when a further attempt follows.
AtMostMaxRetriesRequests ==
  /\ fetch.pc # "idle" =>
       /\ fetch.requests = Len(fetch.log)
       /\ fetch.requests <= fetch.max_retries
       /\ \A i \in 1..(Len(fetch.log) - 1) : Retried(fetch.log[i])
       /\ Len(fetch.sleeps) <= fetch.requests
       /\ fetch.pc = "loop" => Len(fetch.sleeps) = fetch.requests
  /\ fetch.pc = "sleep" => fetch.requests < fetch.max_retries
  /\ fetch.pc = "returned" =>
       /\ fetch.requests > 0 => Len(fetch.sleeps) = fetch.requests - 1
       /\ fetch.result = "data" <=>
            fetch.log # <<>> /\ fetch.log[Len(fetch.log)].kind = "ok"
       /\ fetch.result \in {"data", "None"}
  /\ /\ fetch.log # <<>>
     /\ ~Retried(fetch.log[Len(fetch.log)])
     => fetch.pc = "returned"
  /\ /\ Len(fetch.log) = fetch.max_retries
     /\ fetch.log # <<>>
     /\ fetch.log[Len(fetch.log)].kind # "ok"
     => fetch.pc = "returned" /\ fetch.result = "None"

\* three attempts failed, by a rate limit and by network errors, and None
\* was returned after two sleeps
GaveUpAfterThreeAttempts ==
  /\ fetch.pc = "returned"
  /\ fetch.result = "None"
  /\ fetch.max_retries = 3
  /\ fetch.requests = 3
  /\ Len(fetch.sleeps) = 2
  /\ \E i \in 1..3 : fetch.log[i].kind = "RequestException"
  /\ \E i \in 1..3 : fetch.log[i].status = RateLimited

\* C30: every sleep of fetch_bitnodes that follows failed attempt number a
\* lasts retry_delay * 2^a, after a rate limit and after a network error.
DelayDoublesWithEachRetry ==
  \A i \in 1..Len(fetch.sleeps) :
     fetch.sleeps[i].wait = fetch.retry_delay * (2 ^ fetch.sleeps[i].after)

\* the number of dispatches recorded for the addresses of S
RECURSIVE SumDispatched(_)
SumDispatched(S) ==
  IF S = {} THEN 0
  ELSE LET a == CHOOSE x \in S : TRUE
       IN dispatched[a] + SumDispatched(S \ {a})

\* C33: at every batch boundary of crawl() total_contacted =
\* successful_handshakes + failed_connections, total_contacted is the number
\* of addresses dispatched so far, and no counter ever decreases.
CountersAddUpAtBoundary ==
  /\ [](pc # "gather" =>
          /\ stats.total_contacted =
               stats.successful_handshakes + stats.failed_connections
          /\ stats.total_contacted = SumDispatched(AllAddr))
  /\ [][ /\ stats'.total_contacted >= stats.total_contacted
         /\ stats'.successful_handshakes >= stats.successful_handshakes
         /\ stats'.failed_connections >= stats.failed_connections
         /\ stats'.total_discovered >= stats.total_discovered ]_vars

\* C33 witness: the boundary after a second batch, with successes and
\* failures counted.
SecondBoundaryMixedCounters ==
  /\ pc = "loop"
  /\ Len(stats.peers_per_iteration) = 2
  /\ stats.successful_handshakes >= 1
  /\ stats.failed_connections >= 1
  /\ stats.total_contacted >= 2

\* C34: the iterations_completed of the summary returned by crawl() is the
\* number of batches dispatched and completed in the run (the length of
\* peers_per_iteration), whichever way the loop ended.
IterationsCompletedCountsBatches ==
  pc = "done" =>
    final_stats.iterations_completed = Len(stats.peers_per_iteration)

\* C36: for any initial contents of the store, the summary returned by
\* crawl() has successful_handshakes + failed_connections = total_contacted
\* and total_contacted <= total_discovered.
SummaryConsistentWithRun ==
  pc = "done" =>
    /\ final_stats.successful_handshakes + final_stats.failed_connections
         = final_stats.total_contacted
    /\ final_stats.total_contacted <= final_stats.total_discovered

\* the store's total when batch k + 1 was dispatched, or now if batch k is
\* the latest
TotalAfterBatch(k) ==
  IF k < Len(totalAtDispatch) THEN totalAtDispatch[k + 1] ELSE Cardinality(db.all)

\* C35: the count crawl() appends to peers_per_iteration for a batch is the
\* number of distinct addresses the batch newly inserted into the store, so
\* that total_discovered is the store's total minus the number of seed
\* addresses.
DiscoveryCountIsNewlyInserted ==
  pc = "loop" /\ Len(totalAtDispatch) > 0 =>
    /\ \A k \in 1..Len(stats.peers_per_iteration) :
         stats.peers_per_iteration[k] = TotalAfterBatch(k) - totalAtDispatch[k]
    /\ stats.total_discovered = Cardinality(db.all) - totalAtDispatch[1]

\* C37: after any sequence of save_peer, save_peers_batch and
\* mark_peer_contacted calls by one client on an initially empty store, the
\* uncontacted set and the contacted set are disjoint, and an address that
\* has been marked contacted never re-enters the uncontacted set.
ContactedNeverUncontactedAgain ==
  /\ [](db.uncontacted \cap db.contacted = {})
  /\ [][ /\ db.contacted \subseteq db'.contacted
         /\ db.contacted \cap db'.uncontacted = {} ]_vars

\* C37 witness: the client's last call was a batch save of an address that
\* is in the contacted set; the address is not in the uncontacted set.
ContactedAddressSavedAgain ==
  /\ pc = "save_peers_batch"
  /\ Len(peers_to_process) = 1
  /\ peers_to_process[1][1] \in db.contacted
  /\ peers_to_process[1][1] \notin db.uncontacted
  /\ db.uncontacted # {}

\* C31: save_snapshot is all-or-nothing: when it returns an id, the snapshot
\* row with that id and one peers row per input peer, all carrying that id,
\* have been added and nothing else has changed; when it raises, the tables
\* are as they were before the call.
SaveSnapshotAllOrNothing ==
  [][ sql'.op = "save_snapshot" /\ sql'.now = sql.now =>
        IF sql'.ret.kind = "id"
        THEN /\ sql'.ret.id \notin {r.id : r \in sql.tables.snapshots}
             /\ sql'.tables.snapshots =
                  sql.tables.snapshots
                    \cup {[id |-> sql'.ret.id, created_at |-> sql.now]}
             /\ sql.tables.peers[sql'.ret.id] = <<>>
             /\ sql'.tables.peers[sql'.ret.id] = sql'.data
             /\ \A sid \in 1..MaxSaves :
                  sid # sql'.ret.id => sql'.tables.peers[sid] = sql.tables.peers[sid]
        ELSE sql'.tables = sql.tables ]_vars

\* C31 witness: save_snapshot raised on its second peer, after the snapshot
\* row and a peers row had been inserted, with an earlier snapshot stored.
RaisedAfterPeerInserted ==
  /\ sql.pc = "open"
  /\ sql.op = "save_snapshot"
  /\ sql.ret = RaisedReturn
  /\ sql.data = <<1, NoIp>>
  /\ sql.tables.snapshots # {}
  /\ sql.tables.seq = Cardinality(sql.tables.snapshots)

\* C32: get_latest_snapshot returns the snapshot written by the most recent
\* save_snapshot call, with exactly its peers, also when several snapshots
\* were saved within the same second; delete_old_snapshots(k) keeps exactly
\* the min(n, k) most recently saved snapshots and leaves no peers row that
\* references a deleted snapshot.
LatestIsMostRecentSave ==
  /\ [](sql.pc = "open" /\ sql.op = "get_latest_snapshot" /\ sql.lastSaved # 0 =>
          /\ sql.ret.kind = "snapshot"
          /\ sql.ret.id = sql.lastSaved
          /\ sql.ret.peers = SortByIp(sql.lastData))
  /\ [][ sql'.op = "delete_old_snapshots" /\ sql'.now = sql.now =>
           LET ids == {r.id : r \in sql.tables.snapshots}
               kept == {r.id : r \in sql'.tables.snapshots}
           IN /\ sql'.tables.snapshots \subseteq sql.tables.snapshots
              /\ Cardinality(kept) = Min(Cardinality(ids), sql'.keep)
              /\ \A i \in kept, j \in ids \ kept : i > j
              /\ \A sid \in 1..MaxSaves :
                   sql'.tables.peers[sid] =
                     IF sid \in kept THEN sql.tables.peers[sid] ELSE <<>> ]_vars
====
